---- MODULE Spec2Model ----
(***************************************************************************)
(* Model of the unified security scanner's core pipeline:                  *)
(*   ScanOrchestrator.scan   (packages/core/src/orchestrator/scanner.ts)   *)
(*   FalsePositiveRuleEngine (packages/core/src/fp-reducer/rule-engine.ts) *)
(*   scanCommand             (CLI scan command)                            *)
(*                                                                         *)
(* Strings are modelled as sequences of tokens.  A path such as            *)
(* "/test/component.test.ts" is <<"/","test","/","component",".","test",   *)
(* ".","ts">>; a snippet is the sequence of its words.  The tokens of the  *)
(* universe below are chosen so that "contains the substring k" coincides  *)
(* with "has the token k" for every keyword k the code looks for.          *)
(* Confidence, a float in [0,1], is modelled in percent (0..100).          *)
(***************************************************************************)
EXTENDS Integers, Sequences, FiniteSets, Bags, TLC

(* ------------------------------ bounds --------------------------------- *)
MaxAdapters == 5
MaxWorkers == 2
MaxRaw == 3
MaxFindings == 2
MaxJsonFindings == 2
MaxRuns == 1
MaxLiveAdapters == 3
\* the longest file of the inline-directive stage
MaxFileLines == 8
\* the largest config.retry.maxRetries
MaxRetries == 2
\* the most SARIF files merged, and the most results of a run
MaxSarifFiles == 2
MaxSarifResults == 2

(* ------------------------- program constants --------------------------- *)
DefaultWorkers == 4

(* --------------------------- generic helpers --------------------------- *)
Range(s) == {s[i] : i \in 1..Len(s)}

Min(a, b) == IF a < b THEN a ELSE b

Max(a, b) == IF a > b THEN a ELSE b

RECURSIVE SumOver(_, _)
SumOver(f, S) ==
  IF S = {} THEN 0
  ELSE LET k == CHOOSE x \in S : TRUE IN f[k] + SumOver(f, S \ {k})

\* Array.prototype.slice(from, to) on a 0-based array, as a 1-based sequence
Slice(s, from, to) ==
  IF to <= from THEN <<>> ELSE SubSeq(s, from + 1, Min(to, Len(s)))

Has(s, tok) == \E i \in 1..Len(s) : s[i] = tok

HasAny(s, toks) == \E i \in 1..Len(s) : s[i] \in toks

EndsWith(s, suffix) ==
  /\ Len(s) >= Len(suffix)
  /\ SubSeq(s, Len(s) - Len(suffix) + 1, Len(s)) = suffix

\* adjacent tokens a b somewhere in s
HasPair(s, a, b) == \E i \in 1..(Len(s) - 1) : s[i] = a /\ s[i + 1] = b

\* String(n) for a line number: its decimal digits as tokens
Digit(d) == <<"0", "1", "2", "3", "4", "5", "6", "7", "8", "9">>[d + 1]

RECURSIVE NumToString(_)
NumToString(n) ==
  IF n < 10 THEN <<Digit(n)>> ELSE NumToString(n \div 10) \o <<Digit(n % 10)>>

(* ------------------------------ paths ---------------------------------- *)
\* the "/"-separated segments of a path, empty segments dropped
RECURSIVE Segments(_)
Segments(file) ==
  IF file = <<>> THEN <<>>
  ELSE IF Head(file) = "/" THEN Segments(Tail(file))
  ELSE LET idx == {i \in 1..Len(file) : file[i] = "/"}
           cut == IF idx = {} THEN Len(file) + 1
                  ELSE CHOOSE i \in idx : \A j \in idx : i <= j
       IN <<SubSeq(file, 1, cut - 1)>> \o Segments(SubSeq(file, cut + 1, Len(file)))

Basename(file) ==
  LET segs == Segments(file) IN IF segs = <<>> THEN <<>> ELSE segs[Len(segs)]

\* directory names of a path (every segment but the last)
Dirs(file) ==
  LET segs == Segments(file)
  IN {segs[i] : i \in 1..(Len(segs) - 1)}

\* picomatch "*<suffix>" on one path segment: a non-empty stem that does not
\* start with a dot, followed by the literal suffix
StarSuffix(seg, suffix) ==
  /\ Len(seg) > Len(suffix)
  /\ EndsWith(seg, suffix)
  /\ seg[1] # "."

\* picomatch "<prefix>*" on one path segment
PrefixStar(seg, prefix) ==
  /\ Len(seg) >= Len(prefix)
  /\ SubSeq(seg, 1, Len(prefix)) = prefix

\* "**/*<mid>.{e1,e2,...}" : basename is stem, mid, one of the extensions
MatchesBaseExt(file, mid, exts) ==
  \E e \in exts : StarSuffix(Basename(file), mid \o <<".", e>>)

\* "**/<dir>/**" : some directory of the path is named dir
MatchesDir(file, dir) == <<dir>> \in Dirs(file)

\* the tokens t1 t2 ... of a regex a.*b.*c : one token of each set, in order,
\* on one line ("." does not match a newline)
RECURSIVE InOrder(_, _)
InOrder(line, sets) ==
  IF sets = <<>> THEN TRUE
  ELSE \E i \in 1..Len(line) :
         /\ line[i] \in Head(sets)
         /\ InOrder(SubSeq(line, i + 1, Len(line)), Tail(sets))

\* regexp test against a multi-line text whose "." stays on one line
AnyLineInOrder(lines, sets) == \E i \in 1..Len(lines) : InOrder(lines[i], sets)

\* all tokens of a multi-line text, lines joined by "\n"
RECURSIVE Join(_)
Join(lines) ==
  IF lines = <<>> THEN <<>>
  ELSE IF Len(lines) = 1 THEN lines[1]
  ELSE lines[1] \o <<"\n">> \o Join(Tail(lines))

\* String.prototype.split('\n') of a token text
RECURSIVE SplitLines(_)
SplitLines(text) ==
  LET idx == {i \in 1..Len(text) : text[i] = "\n"}
  IN IF idx = {} THEN <<text>>
     ELSE LET cut == CHOOSE i \in idx : \A j \in idx : i <= j
          IN <<SubSeq(text, 1, cut - 1)>> \o SplitLines(SubSeq(text, cut + 1, Len(text)))

\* case folding of the tokens that occur in the universe (regex flag i)
Lower(t) ==
  CASE t = "Describe" -> "describe"
    [] t = "README" -> "readme"
    [] t = "Public" -> "public"
    [] t = "MD" -> "md"
    [] t = "appId" -> "appid"
    [] t = "apiKey" -> "apikey"
    [] t = "firebaseConfig" -> "firebaseconfig"
    [] OTHER -> t

LowerAll(s) == [i \in 1..Len(s) |-> Lower(s[i])]

(* --------------------- rule-engine.ts: constants ----------------------- *)
ScriptExts == {"ts", "tsx", "js", "jsx"}

YamlExts == {"yml", "yaml"}

ExampleExts == {"json", "yml", "yaml"}

LockFiles ==
  { <<"yarn", ".", "lock">>, <<"package-lock", ".", "json">>,
    <<"pnpm-lock", ".", "yaml">>, <<"composer", ".", "lock">> }

\* micromatch.isMatch(file, DEFAULT_EXCLUSIONS)
MatchesDefaultExclusions(file) ==
  LET base == Basename(file) IN
  \* test files
  \/ MatchesBaseExt(file, <<".", "test">>, ScriptExts)
  \/ MatchesBaseExt(file, <<".", "spec">>, ScriptExts)
  \/ \E d \in {"__tests__", "__mocks__", "fixtures", "examples", "demo"} :
       MatchesDir(file, d)
  \/ MatchesBaseExt(file, <<".", "stories">>, ScriptExts)
  \* documentation
  \/ MatchesBaseExt(file, <<>>, {"md", "mdx"})
  \/ MatchesDir(file, "docs")
  \/ <<".", "storybook">> \in Dirs(file)
  \/ \E n \in {"README", "CHANGELOG", "CONTRIBUTING", "SECURITY", "LICENSE"} :
       PrefixStar(base, <<n>>)
  \* dependencies and build output
  \/ \E d \in {"node_modules", "vendor", "dist", "build", "coverage", "reports"} :
       MatchesDir(file, d)
  \* package manager files
  \/ base \in LockFiles
  \* config examples
  \/ MatchesBaseExt(file, <<".", "example">>, ExampleExts)
  \/ MatchesBaseExt(file, <<".", "sample">>, ExampleExts)
  \/ (Len(base) > 4 /\ PrefixStar(base, <<"example", ".", "config", ".">>))
  \/ base \in {<<".", "env", ".", "example">>, <<".", "env", ".", "template">>}
  \* scanner rules
  \/ \E d \in {"rules", "patterns"} :
       MatchesDir(file, d) /\ MatchesBaseExt(file, <<>>, YamlExts)

TEST_PREFIXES ==
  {"MOCK_", "TEST_", "EXAMPLE_", "SAMPLE_", "FIXTURE_", "DEMO_",
   "PLACEHOLDER_", "YOUR_", "REPLACE_"}

\* /describe|it\(|test\(|expect\(|jest\.|vitest\.|mocha\.|beforeEach|.../i
TEST_KEYWORDS ==
  {"describe", "it(", "test(", "expect(", "jest.", "vitest.", "mocha.",
   "beforeeach", "aftereach", "beforeall", "afterall"}

\* /commands?|cli|bin|scan|orchestrator|adapters?|analyzers?/
CLI_PATTERNS ==
  {"command", "commands", "cli", "bin", "scan", "orchestrator",
   "adapter", "adapters", "analyzer", "analyzers"}

\* the word alternatives of DOC_MARKERS (flag i)
DOC_MARKER_WORDS ==
  {"example", "sample", "demo", "placeholder", "your_", "replace_"}

\* <[^>]+> , \[[^\]]+\] , \{\{[^}]+\}\} : an opening token, at least one
\* token that is not the closing one, then the closing token
Bracketed(s, open, close) ==
  \E i \in 1..Len(s) : \E j \in (i + 2)..Len(s) :
    /\ s[i] = open
    /\ s[j] = close
    /\ \A k \in (i + 1)..(j - 1) : s[k] # close

DOC_MARKERS(s) ==
  \/ Bracketed(s, "<", ">")
  \/ Bracketed(s, "[", "]")
  \/ Bracketed(s, "{{", "}}")
  \/ HasAny(LowerAll(s), DOC_MARKER_WORDS)

(* ------------------ rule-engine.ts: stage predicates ------------------- *)
\* the value null / undefined of an optional string
Undefined == "undefined"

\* constructor: DEFAULT_EXCLUSIONS when excludeTestFiles, otherwise []
exclusionPatterns(config) == config.excludeTestFiles

\* constructor: config.falsePositives.patterns || []
customPatterns(config) == config.patterns

matchesExclusionPattern(config, file) ==
  exclusionPatterns(config) /\ MatchesDefaultExclusions(file)

\* micromatch.isMatch(file, rule.file) for globs of the shape **/*<mid>.<ext>
GlobMatch(file, glob) == MatchesBaseExt(file, glob.mid, glob.exts)

\* new RegExp(rule.pattern).test(snippet) for a literal pattern
RegExpTest(pattern, snippet) == Has(snippet, pattern)

\* a loop over the custom rules that tests the glob of a rule only
FirstCustomMatchGlobOnly(config, finding) ==
  LET rules == customPatterns(config)
      hits == {i \in 1..Len(rules) : GlobMatch(finding.file, rules[i].file)}
  IN IF hits = {} THEN 0 ELSE CHOOSE i \in hits : \A j \in hits : i <= j

\* index of the first custom rule that matches file and snippet, 0 if none
FirstCustomMatch(config, finding) ==
  LET rules == customPatterns(config)
      hits == {i \in 1..Len(rules) :
                 /\ GlobMatch(finding.file, rules[i].file)
                 /\ RegExpTest(rules[i].pattern, finding.snippet)}
  IN IF hits = {} THEN 0 ELSE CHOOSE i \in hits : \A j \in hits : i <= j

hasTestPrefix(snippet) == HasAny(snippet, TEST_PREFIXES)

\* a context is the window of lines or null; a JavaScript string is truthy
\* unless it is empty
NullContext == [isNull |-> TRUE, lines |-> <<>>]

Truthy(context) == ~context.isNull /\ Join(context.lines) # <<>>

isTestContext(context) ==
  \E i \in 1..Len(context.lines) :
    HasAny(LowerAll(context.lines[i]), TEST_KEYWORDS)

\* lines[k] of a 0-based array: <<line>> or <<>> for undefined
At(lines, k) == IF k >= 0 /\ k < Len(lines) THEN <<lines[k + 1]>> ELSE <<>>

\* line?.includes('nosec') || line?.includes('noqa')
HasMarker(optLine) ==
  optLine # <<>> /\ HasAny(optLine[1], {"nosec", "noqa"})

hasNoSecComment(context, lineNumber) ==
  LET lines == SplitLines(Join(context.lines))
      relevantLine == At(lines, Min(lineNumber - 1, Len(lines) - 1))
      prevLine == At(lines, Max(0, lineNumber - 2))
  IN HasMarker(relevantLine) \/ HasMarker(prevLine)

isCliPathTraversal(finding) ==
  LET isCliFile == HasAny(finding.file, CLI_PATTERNS)
      isPathOp == \E i \in 1..(Len(finding.snippet) - 2) :
                    /\ finding.snippet[i] = "path"
                    /\ finding.snippet[i + 1] = "."
                    /\ finding.snippet[i + 2] \in {"join", "resolve", "normalize"}
      hasValidation ==
        HasAny(finding.snippet, {"validate", "sanitize", "normalize", "resolve"})
  IN isCliFile /\ isPathOp
       /\ (hasValidation \/ Has(finding.ruleId, "path-traversal"))

isDocumentationFalsePositive(finding) ==
  LET file == LowerAll(finding.file)
      isDocFile ==
        \/ \E e \in {"md", "rst", "txt"} : EndsWith(file, <<".", e>>)
        \/ HasPair(file, "doc", "/")
        \/ HasPair(file, "docs", "/")
      hasDocMarkers == DOC_MARKERS(finding.snippet)
  IN isDocFile /\ (hasDocMarkers \/ finding.category = "secrets")

isScannerRuleFalsePositive(finding) ==
  LET file == LowerAll(finding.file)
      isRuleFile ==
        /\ (HasPair(file, "rule", "/") \/ HasPair(file, "rules", "/"))
        /\ \E e \in YamlExts : EndsWith(finding.file, <<".", e>>)
      isSecretRule ==
        finding.category = "secrets" \/ Has(finding.ruleId, "hardcoded")
  IN isRuleFile /\ isSecretRule

\* token classes of the hash shapes the integrity regexes look for
TgzHashTokens == {".tgz#da39a3ee5e6b4b0d3255bfef95601890afd80709"}

ShaTokens == {"sha512-q1w2e3=="}

QuotedHexTokens == {"\"da39a3ee5e6b4b0d3255bfef95601890afd80709\""}

isPackageManagerHash(finding) ==
  LET isLockFile == \E l \in LockFiles : EndsWith(finding.file, <<"/">> \o l)
      isIntegrityHash ==
        \/ InOrder(finding.snippet, <<{"resolved"}, TgzHashTokens>>)
        \/ InOrder(finding.snippet, <<{"integrity"}, ShaTokens>>)
        \/ HasAny(finding.snippet, QuotedHexTokens)
  IN isLockFile /\ isIntegrityHash /\ finding.category = "secrets"

\* token classes of the literals the public-key regexes look for
AppIdLiterals == {"'ABCDE12345'"}

HexKeyLiterals == {"'0123456789abcdef0123456789abcdef'"}

StripePkTokens == {"pk_live_0123456789abcdefghijklmn"}

\* publicKeyPatterns: token sets in order, case folding, readOnly
publicKeyPatterns ==
  << [sets |-> <<{"algolia"}, {"appId"}, AppIdLiterals, {"apiKey"}, HexKeyLiterals>>,
      fold |-> FALSE, readOnly |-> TRUE],
     [sets |-> <<{"ALGOLIA"}, {"APP_ID"}, {"API_KEY"}>>,
      fold |-> FALSE, readOnly |-> TRUE],
     [sets |-> <<{"google"}, {"maps"}, {"api"}, {"key"}>>,
      fold |-> TRUE, readOnly |-> FALSE],
     [sets |-> <<StripePkTokens>>, fold |-> FALSE, readOnly |-> TRUE],
     [sets |-> <<{"firebase"}, {"config"}, {"apikey"}>>,
      fold |-> TRUE, readOnly |-> TRUE] >>

\* keyPattern.pattern.test(text) for a text given as lines
PatternTest(keyPattern, lines) ==
  LET text == IF keyPattern.fold
              THEN [i \in 1..Len(lines) |-> LowerAll(lines[i])]
              ELSE lines
  IN AnyLineInOrder(text, keyPattern.sets)

LowerLines(context) ==
  [i \in 1..Len(context.lines) |-> LowerAll(context.lines[i])]

isAlgoliaSearchOnlyKey(snippet, context) ==
  LET text == Join(LowerLines(context))
      hasSearchOnlyUsage ==
        /\ HasAny(text, {"search", "query", "index"})
        /\ ~HasAny(text, {"admin", "write", "delete", "update"})
      isClientConfig == HasAny(text, {"client", "frontend", "public"})
      hasAppIdPattern == AnyLineInOrder(context.lines, <<{"appId"}, AppIdLiterals>>)
  IN hasSearchOnlyUsage /\ (isClientConfig \/ hasAppIdPattern)

hasPublicMarkers(context) ==
  LET text == Join(LowerLines(context))
  IN \/ HasAny(text, {"public", "client", "frontend", "browser",
                      "readonly", "read-only", "read_only"})
     \/ HasPair(text, "read", "only")

hasConfigStructure(context) ==
  LET text == Join(LowerLines(context))
  IN \/ AnyLineInOrder(LowerLines(context), <<{"const"}, {"config"}>>)
     \/ AnyLineInOrder(LowerLines(context), <<{"export"}, {"config"}>>)
     \/ \E i \in 1..Len(text) : \E j \in (i + 1)..Len(text) :
        \E k \in (j + 1)..Len(text) : \E m \in (k + 1)..Len(text) :
          /\ text[i] = "{" /\ text[j] = "appid"
          /\ text[k] = "apikey" /\ text[m] = "}"
          /\ \A n \in (i + 1)..(m - 1) : text[n] # "}"

isInPublicFile(file) ==
  HasAny(LowerAll(file), {"config", "constants", "settings"})

isLegitimatePublicApiKey(finding, context) ==
  IF ~Truthy(context) \/ finding.category # "secrets" THEN FALSE
  ELSE \E p \in 1..Len(publicKeyPatterns) :
         LET keyPattern == publicKeyPatterns[p] IN
         /\ \/ PatternTest(keyPattern, context.lines)
            \/ PatternTest(keyPattern, <<finding.snippet>>)
         /\ keyPattern.readOnly
         /\ \/ hasPublicMarkers(context)
            \/ hasConfigStructure(context)
            \/ isInPublicFile(finding.file)
            \/ isAlgoliaSearchOnlyKey(finding.snippet, context)

(* ------------------------- universe of inputs -------------------------- *)
FileA == <<"src", "/", "a", ".", "ts">>

FileB == <<"src", "/", "b", ".", "ts">>

FileT == <<"src", "/", "t", ".", "ts">>

FileTest == <<"/", "test", "/", "component", ".", "test", ".", "ts">>

FileConfig == <<"/", "src", "/", "config", ".", "ts">>

FileExample == <<"src", "/", "app", ".", "example", ".", "ts">>

FileDoc == <<"notes", "/", "guide", ".", "txt">>

FileCli == <<"src", "/", "cli", "/", "run", ".", "ts">>

FileRule == <<"rules", "/", "secrets", ".", "yml">>

FileLock == <<"app", "/", "yarn", ".", "lock">>

FilePub == <<"src", "/", "keys", ".", "ts">>

PlainLine == <<"let", "v", "=", "1">>

\* the lines of the files that exist on disk (content.split('\n'))
FileContent(file) ==
  CASE file = FileA -> [i \in 1..12 |-> PlainLine]
    [] file = FileB -> <<PlainLine, <<"//", "nosec">>, PlainLine, PlainLine>>
    [] file = FileT -> <<<<"Describe", "(", "suite", ")">>, PlainLine, PlainLine>>
    [] file = FileTest -> <<<<"it(", "works", ")">>, PlainLine>>
    [] file = FileDoc -> <<PlainLine, PlainLine>>
    [] file = FileCli -> <<PlainLine, PlainLine>>
    [] file = FileRule -> <<PlainLine>>
    [] file = FileLock -> <<PlainLine>>
    [] file = FilePub -> <<<<"//", "public", "stripe", "key">>, PlainLine>>
    [] OTHER -> <<>>

ExistingFiles ==
  {FileA, FileB, FileT, FileTest, FileDoc, FileCli, FileRule, FileLock, FilePub}

SnipKey == <<"const", "API_KEY", "=", "\"sk-real-key-12345\"">>

SnipMock == <<"const", "MOCK_", "API_KEY", "=", "\"test-key\"">>

SnipPath == <<"path", ".", "join", "(", "validate", "(", "p", ")", ")">>

SnipHash == <<"integrity", "sha512-q1w2e3==">>

SnipPk == <<"key", "=", "pk_live_0123456789abcdefghijklmn">>

Finding(id, ruleId, source, severity, category, file, line, snippet, confidence) ==
  [id |-> id, ruleId |-> ruleId, source |-> source, severity |-> severity,
   category |-> category, file |-> file, line |-> line, snippet |-> snippet,
   confidence |-> confidence]

F1 == Finding("f1", <<"r1">>, "truffleHog", "HIGH", "secrets", FileA, 10, SnipKey, 80)

F2 == Finding("f2", <<"r1">>, "semgrep", "CRITICAL", "secrets", FileA, 10, SnipKey, 95)

F3 == Finding("f3", <<"r1">>, "custom-npm", "MEDIUM", "injection", FileA, 10, SnipKey, 95)

FTest == Finding("f4", <<"r2">>, "semgrep", "HIGH", "secrets", FileTest, 10, SnipMock, 90)

FMock == Finding("f5", <<"r2">>, "custom-npm", "LOW", "secrets", FileConfig, 10, SnipMock, 90)

FCustom == Finding("f6", <<"r3">>, "custom-npm", "HIGH", "secrets", FileExample, 1, SnipKey, 70)

FCtx == Finding("f7", <<"r3">>, "semgrep", "MEDIUM", "auth", FileT, 2, SnipKey, 60)

FNosec == Finding("f8", <<"r4">>, "semgrep", "INFO", "crypto", FileB, 3, SnipKey, 50)

FCli == Finding("f9", <<"path-traversal">>, "semgrep", "HIGH", "injection", FileCli, 1, SnipPath, 85)

FDoc == Finding("f10", <<"r5">>, "truffleHog", "LOW", "secrets", FileDoc, 1, SnipKey, 40)

FRule == Finding("f11", <<"hardcoded", "-", "secret">>, "semgrep", "HIGH", "other", FileRule, 1, SnipKey, 75)

FLock == Finding("f12", <<"r6">>, "truffleHog", "MEDIUM", "secrets", FileLock, 1, SnipHash, 30)

FPub == Finding("f13", <<"r7">>, "custom-secrets", "CRITICAL", "secrets", FilePub, 1, SnipPk, 90)

FReal == Finding("f14", <<"r8">>, "custom-secrets", "LOW", "dependency", FileB, 1, SnipKey, 100)

Findings ==
  {F1, F2, F3, FTest, FMock, FCustom, FCtx, FNosec, FCli, FDoc, FRule, FLock,
   FPub, FReal}

\* custom suppression rules (config.falsePositives.patterns)
RuleExample ==
  [file |-> [mid |-> <<".", "example">>, exts |-> {"ts"}],
   pattern |-> "API_KEY", reason |-> "Example file"]

RuleAnyTs ==
  [file |-> [mid |-> <<>>, exts |-> {"ts"}],
   pattern |-> "PASSWORD", reason |-> "Password in a ts file"]

RuleKeyTs ==
  [file |-> [mid |-> <<>>, exts |-> {"ts"}],
   pattern |-> "API_KEY", reason |-> "Key in a ts file"]

FpConfigs ==
  [excludeTestFiles : BOOLEAN,
   patterns : {<<>>, <<RuleExample>>, <<RuleAnyTs, RuleExample, RuleKeyTs>>}]

\* DEFAULT_CONFIG.falsePositives
DEFAULT_CONFIG == [excludeTestFiles |-> TRUE, patterns |-> <<>>]

(* ---------------------- rule-engine.ts: the engine --------------------- *)
\* readFile fails for a file that does not exist or is in the unreadable set
ReadFails(unreadableFiles, file) ==
  file \notin ExistingFiles \/ file \in unreadableFiles

\* the try block of getContext: the window of the lines around a finding
ContextOf(lines, line) ==
  LET startLine == Max(0, line - 6)
      endLine == Min(Len(lines), line + 5)
  IN [isNull |-> FALSE, lines |-> Slice(lines, startLine, endLine)]

getContext(unreadableFiles, finding) ==
  IF ReadFails(unreadableFiles, finding.file) THEN NullContext
  ELSE ContextOf(FileContent(finding.file), finding.line)

Suppress(reason) == [suppress |-> TRUE, reason |-> reason]

Keep == [suppress |-> FALSE, reason |-> Undefined]

\* an evaluator that looks at the naming prefix before the exclusion globs
shouldSuppressPrefixFirst(config, unreadableFiles, finding) ==
  LET context == getContext(unreadableFiles, finding)
      custom == FirstCustomMatch(config, finding)
  IN
  IF hasTestPrefix(finding.snippet)
  THEN Suppress("Variable has test/mock prefix (MOCK_, TEST_, etc.)")
  ELSE IF matchesExclusionPattern(config, finding.file)
  THEN Suppress("File matches exclusion pattern (test/docs/dependencies)")
  ELSE IF custom # 0
  THEN Suppress(customPatterns(config)[custom].reason)
  ELSE IF Truthy(context) /\ isTestContext(context)
  THEN Suppress("Found in test context (describe/it/test/expect)")
  ELSE IF Truthy(context) /\ hasNoSecComment(context, finding.line)
  THEN Suppress("Suppressed by nosec comment")
  ELSE IF isCliPathTraversal(finding)
  THEN Suppress("CLI tool legitimate path operations")
  ELSE IF isDocumentationFalsePositive(finding)
  THEN Suppress("Documentation with example credentials")
  ELSE IF isScannerRuleFalsePositive(finding)
  THEN Suppress("Security scanner rule definitions")
  ELSE IF isPackageManagerHash(finding)
  THEN Suppress("Package manager integrity hash")
  ELSE IF isLegitimatePublicApiKey(finding, context)
  THEN Suppress("Legitimate public/read-only API key")
  ELSE Keep

\* an evaluator that stops and keeps the finding when its file cannot be read
shouldSuppressGivesUp(config, unreadableFiles, finding) ==
  LET context == getContext(unreadableFiles, finding)
      custom == FirstCustomMatch(config, finding)
  IN
  IF matchesExclusionPattern(config, finding.file)
  THEN Suppress("File matches exclusion pattern (test/docs/dependencies)")
  ELSE IF custom # 0
  THEN Suppress(customPatterns(config)[custom].reason)
  ELSE IF hasTestPrefix(finding.snippet)
  THEN Suppress("Variable has test/mock prefix (MOCK_, TEST_, etc.)")
  ELSE IF context.isNull
  THEN Keep
  ELSE IF Truthy(context) /\ isTestContext(context)
  THEN Suppress("Found in test context (describe/it/test/expect)")
  ELSE IF Truthy(context) /\ hasNoSecComment(context, finding.line)
  THEN Suppress("Suppressed by nosec comment")
  ELSE IF isCliPathTraversal(finding)
  THEN Suppress("CLI tool legitimate path operations")
  ELSE IF isDocumentationFalsePositive(finding)
  THEN Suppress("Documentation with example credentials")
  ELSE IF isScannerRuleFalsePositive(finding)
  THEN Suppress("Security scanner rule definitions")
  ELSE IF isPackageManagerHash(finding)
  THEN Suppress("Package manager integrity hash")
  ELSE IF isLegitimatePublicApiKey(finding, context)
  THEN Suppress("Legitimate public/read-only API key")
  ELSE Keep

shouldSuppress(config, unreadableFiles, finding) ==
  LET context == getContext(unreadableFiles, finding)
      custom == FirstCustomMatch(config, finding)
  IN
  IF matchesExclusionPattern(config, finding.file)
  THEN Suppress("File matches exclusion pattern (test/docs/dependencies)")
  ELSE IF custom # 0
  THEN Suppress(customPatterns(config)[custom].reason)
  ELSE IF hasTestPrefix(finding.snippet)
  THEN Suppress("Variable has test/mock prefix (MOCK_, TEST_, etc.)")
  ELSE IF Truthy(context) /\ isTestContext(context)
  THEN Suppress("Found in test context (describe/it/test/expect)")
  ELSE IF Truthy(context) /\ hasNoSecComment(context, finding.line)
  THEN Suppress("Suppressed by nosec comment")
  ELSE IF isCliPathTraversal(finding)
  THEN Suppress("CLI tool legitimate path operations")
  ELSE IF isDocumentationFalsePositive(finding)
  THEN Suppress("Documentation with example credentials")
  ELSE IF isScannerRuleFalsePositive(finding)
  THEN Suppress("Security scanner rule definitions")
  ELSE IF isPackageManagerHash(finding)
  THEN Suppress("Package manager integrity hash")
  ELSE IF isLegitimatePublicApiKey(finding, context)
  THEN Suppress("Legitimate public/read-only API key")
  ELSE Keep

\* a push of the finding itself, without the annotation
WithoutSuppressedBy(finding, reason) == finding

\* { ...finding, suppressedBy: reason }
WithSuppressedBy(finding, reason) == finding @@ [suppressedBy |-> reason]

\* a loop that pushes a suppressed finding to the kept list as well
RECURSIVE filterFindingsKeepsAll(_, _, _)
filterFindingsKeepsAll(config, unreadableFiles, findings) ==
  IF findings = <<>> THEN [findings |-> <<>>, suppressed |-> <<>>]
  ELSE LET n == Len(findings)
           finding == findings[n]
           sofar == filterFindingsKeepsAll(config, unreadableFiles,
                                           SubSeq(findings, 1, n - 1))
           result == shouldSuppress(config, unreadableFiles, finding)
       IN IF result.suppress
          THEN [findings |-> Append(sofar.findings, finding),
                suppressed |-> Append(sofar.suppressed,
                                      WithSuppressedBy(finding, result.reason))]
          ELSE [findings |-> Append(sofar.findings, finding),
                suppressed |-> sofar.suppressed]

RECURSIVE filterFindings(_, _, _)
filterFindings(config, unreadableFiles, findings) ==
  IF findings = <<>> THEN [findings |-> <<>>, suppressed |-> <<>>]
  ELSE LET n == Len(findings)
           finding == findings[n]
           sofar == filterFindings(config, unreadableFiles, SubSeq(findings, 1, n - 1))
           result == shouldSuppress(config, unreadableFiles, finding)
       IN IF result.suppress
          THEN [findings |-> sofar.findings,
                suppressed |-> Append(sofar.suppressed,
                                      WithSuppressedBy(finding, result.reason))]
          ELSE [findings |-> Append(sofar.findings, finding),
                suppressed |-> sofar.suppressed]

(* ------------------- scanner.ts: pure parts of scan -------------------- *)
\* `${finding.file}:${finding.line}:${finding.ruleId}`
DedupKey(finding) ==
  finding.file \o <<":">> \o NumToString(finding.line) \o <<":">> \o finding.ruleId

\* position of key in the insertion-ordered Map, 0 when absent
MapIndex(seen, key) ==
  LET hits == {i \in 1..Len(seen) : seen[i].key = key}
  IN IF hits = {} THEN 0 ELSE CHOOSE i \in hits : TRUE

\* a loop body that also replaces on equal confidence (last seen wins ties)
DedupStepLastWins(seen, finding) ==
  LET key == DedupKey(finding)
      at == MapIndex(seen, key)
  IN IF at = 0 THEN Append(seen, [key |-> key, value |-> finding])
     ELSE IF finding.confidence >= seen[at].value.confidence
     THEN [seen EXCEPT ![at].value = finding]
     ELSE seen

\* a loop body that never replaces the finding stored for a key
DedupStepKeepsFirst(seen, finding) ==
  LET key == DedupKey(finding)
      at == MapIndex(seen, key)
  IN IF at = 0 THEN Append(seen, [key |-> key, value |-> finding])
     ELSE seen

\* a loop body that deletes the stored entry and sets the key anew when it
\* replaces, which moves the key to the end of the Map
DedupStepMovesToEnd(seen, finding) ==
  LET key == DedupKey(finding)
      at == MapIndex(seen, key)
  IN IF at = 0 THEN Append(seen, [key |-> key, value |-> finding])
     ELSE IF finding.confidence > seen[at].value.confidence
     THEN Append(SubSeq(seen, 1, at - 1) \o SubSeq(seen, at + 1, Len(seen)),
                 [key |-> key, value |-> finding])
     ELSE seen

\* one iteration of the loop of deduplicateFindings
DedupStep(seen, finding) ==
  LET key == DedupKey(finding)
      at == MapIndex(seen, key)
  IN IF at = 0 THEN Append(seen, [key |-> key, value |-> finding])
     ELSE IF finding.confidence > seen[at].value.confidence
     THEN [seen EXCEPT ![at].value = finding]
     ELSE seen

\* the loop of deduplicateFindings: seen is the Map the earlier iterations
\* built, next the Map after the iteration of the last finding
RECURSIVE DedupFold(_)
DedupFold(findings) ==
  IF findings = <<>> THEN <<>>
  ELSE CHOOSE next \in
         {DedupStep(seen, findings[Len(findings)]) :
            seen \in {DedupFold(SubSeq(findings, 1, Len(findings) - 1))}} : TRUE

\* a deduplicator that returns the values of the Map in reverse order
deduplicateFindingsReversed(findings) ==
  LET seen == DedupFold(findings)
  IN [i \in 1..Len(seen) |-> seen[Len(seen) + 1 - i].value]

deduplicateFindings(findings) ==
  LET seen == DedupFold(findings)
  IN [i \in 1..Len(seen) |-> seen[i].value]

Severities == {"CRITICAL", "HIGH", "MEDIUM", "LOW", "INFO"}

Categories == {"secrets", "injection", "auth", "crypto", "dependency", "other"}

Sources == {"truffleHog", "semgrep", "custom-npm", "custom-react", "custom-secrets"}

ZeroStats ==
  [total |-> 0,
   bySeverity |-> [v \in Severities |-> 0],
   byCategory |-> [v \in Categories |-> 0],
   bySource |-> [v \in Sources |-> 0],
   suppressedCount |-> 0]

\* a loop that leaves the source buckets alone
RECURSIVE StatsFoldNoSource(_, _)
StatsFoldNoSource(stats, findings) ==
  IF findings = <<>> THEN stats
  ELSE LET finding == Head(findings)
       IN StatsFoldNoSource([stats EXCEPT !.bySeverity[finding.severity] = @ + 1,
                                          !.byCategory[finding.category] = @ + 1],
                            Tail(findings))

\* the loop of calculateStats: one increment per bucket and finding
RECURSIVE StatsFold(_, _)
StatsFold(stats, findings) ==
  IF findings = <<>> THEN stats
  ELSE LET finding == Head(findings)
       IN StatsFold([stats EXCEPT !.bySeverity[finding.severity] = @ + 1,
                                  !.byCategory[finding.category] = @ + 1,
                                  !.bySource[finding.source] = @ + 1],
                    Tail(findings))

calculateStats(findings) ==
  [StatsFold(ZeroStats, findings) EXCEPT !.total = Len(findings),
                                         !.suppressedCount = 0]

(* ---------------- reporters/sarif.ts: SarifReporter --------------------- *)
\* word.charAt(0).toUpperCase() + word.slice(1)
CapitalizeFirst(word) ==
  CASE word = "hardcoded" -> "Hardcoded"
    [] word = "secret" -> "Secret"
    [] word = "path" -> "Path"
    [] word = "traversal" -> "Traversal"
    [] word \in {"r1", "r2", "r3", "r4", "r5", "r6", "r7", "r8"} ->
         CHOOSE w \in {"R1", "R2", "R3", "R4", "R5", "R6", "R7", "R8"} :
           \E d \in 1..8 : word = "r" \o Digit(d) /\ w = "R" \o Digit(d)
    [] OTHER -> word

\* ruleId.split('-'): the words between the hyphens
RECURSIVE SplitDash(_)
SplitDash(ruleId) ==
  IF ruleId = <<>> THEN <<>>
  ELSE LET t == Head(ruleId) IN
       IF t = "-" THEN SplitDash(Tail(ruleId))
       ELSE IF t = "path-traversal"
       THEN <<"path", "traversal">> \o SplitDash(Tail(ruleId))
       ELSE <<t>> \o SplitDash(Tail(ruleId))

toRuleName(ruleId) ==
  LET words == SplitDash(ruleId)
  IN [i \in 1..Len(words) |-> CapitalizeFirst(words[i])]

\* buckets whose lower limits are exclusive
mapPrecisionExclusive(confidence) ==
  IF confidence > 90 THEN "very-high"
  ELSE IF confidence > 75 THEN "high"
  ELSE IF confidence > 50 THEN "medium"
  ELSE "low"

\* confidence is held in percent
mapPrecision(confidence) ==
  IF confidence >= 90 THEN "very-high"
  ELSE IF confidence >= 75 THEN "high"
  ELSE IF confidence >= 50 THEN "medium"
  ELSE "low"

mapSecuritySeverity(severity) ==
  CASE severity = "CRITICAL" -> "9.0"
    [] severity = "HIGH" -> "7.0"
    [] severity = "MEDIUM" -> "5.0"
    [] severity = "LOW" -> "3.0"
    [] severity = "INFO" -> "1.0"

mapLevel(severity) ==
  CASE severity = "CRITICAL" -> "error"
    [] severity = "HIGH" -> "error"
    [] severity = "MEDIUM" -> "warning"
    [] severity = "LOW" -> "warning"
    [] severity = "INFO" -> "note"

\* a loop that overwrites the entry of a ruleId already in the map
RECURSIVE rulesMapLastWins(_)
rulesMapLastWins(findings) ==
  IF findings = <<>> THEN <<>>
  ELSE LET n == Len(findings)
           finding == findings[n]
           sofar == rulesMapLastWins(SubSeq(findings, 1, n - 1))
           at == MapIndex(sofar, finding.ruleId)
       IN IF at = 0
          THEN Append(sofar, [key |-> finding.ruleId, value |-> finding])
          ELSE [sofar EXCEPT ![at].value = finding]

\* the loop of extractRules: rulesMap, in insertion order
RECURSIVE rulesMap(_)
rulesMap(findings) ==
  IF findings = <<>> THEN <<>>
  ELSE LET n == Len(findings)
           finding == findings[n]
           sofar == rulesMap(SubSeq(findings, 1, n - 1))
       IN IF MapIndex(sofar, finding.ruleId) = 0
          THEN Append(sofar, [key |-> finding.ruleId, value |-> finding])
          ELSE sofar

\* the rule descriptor built from a finding
RuleDescriptor(finding) ==
  [id |-> finding.ruleId,
   name |-> toRuleName(finding.ruleId),
   tags |-> <<finding.category, "security">>,
   precision |-> mapPrecision(finding.confidence),
   securitySeverity |-> mapSecuritySeverity(finding.severity)]

extractRules(findings) ==
  LET map == rulesMap(findings)
  IN [i \in 1..Len(map) |-> RuleDescriptor(map[i].value)]

convertToSarifResult(finding) ==
  [ruleId |-> finding.ruleId,
   level |-> mapLevel(finding.severity),
   uri |-> finding.file,
   startLine |-> finding.line,
   snippet |-> finding.snippet]

\* SarifReporter.generate: the report that is written out as JSON text
SarifReporterGenerate(scanResult) ==
  [version |-> "2.1.0",
   driver |-> [name |-> "Unified Security Scanner",
               rules |-> extractRules(scanResult.findings)],
   results |-> [i \in 1..Len(scanResult.findings) |->
                  convertToSarifResult(scanResult.findings[i])]]

(* --------------- scanner.ts: SARIFProcessor.generateSARIF -------------- *)
mapSeverityToLevel(severity) ==
  CASE severity = "CRITICAL" -> "error"
    [] severity = "HIGH" -> "error"
    [] severity = "MEDIUM" -> "warning"
    [] severity = "LOW" -> "note"
    [] OTHER -> "info"

mapSeverityToSecuritySeverity(severity) ==
  CASE severity = "CRITICAL" -> "9.0"
    [] severity = "HIGH" -> "7.0"
    [] severity = "MEDIUM" -> "5.0"
    [] severity = "LOW" -> "3.0"
    [] OTHER -> "1.0"

\* finding.severity.toLowerCase()
SeverityLower(severity) ==
  CASE severity = "CRITICAL" -> "critical"
    [] severity = "HIGH" -> "high"
    [] severity = "MEDIUM" -> "medium"
    [] severity = "LOW" -> "low"
    [] severity = "INFO" -> "info"

\* the separator after sourceRoot is one token, as it is one character
relativePath(filePath, sourceRoot) ==
  IF /\ Len(filePath) >= Len(sourceRoot)
     /\ SubSeq(filePath, 1, Len(sourceRoot)) = sourceRoot
  THEN SubSeq(filePath, Len(sourceRoot) + 2, Len(filePath))
  ELSE filePath

generateRules(findings) ==
  LET map == rulesMap(findings)
  IN [i \in 1..Len(map) |->
        [id |-> map[i].value.ruleId,
         tags |-> <<map[i].value.category>>,
         precision |-> "high",
         securitySeverity |-> mapSeverityToSecuritySeverity(map[i].value.severity)]]

\* the default of the parameter sourceRoot
DefaultSourceRoot == <<".">>

generateSARIF(scanResult, sourceRoot) ==
  [version |-> "2.1.0",
   driver |-> [name |-> "Enhanced Security Scanner",
               rules |-> generateRules(scanResult.findings)],
   results |-> [i \in 1..Len(scanResult.findings) |->
                  LET finding == scanResult.findings[i] IN
                  [ruleId |-> finding.ruleId,
                   level |-> mapSeverityToLevel(finding.severity),
                   uri |-> relativePath(finding.file, sourceRoot),
                   startLine |-> finding.line,
                   snippet |-> finding.snippet,
                   tags |-> <<finding.category, SeverityLower(finding.severity)>>]]]

(* ----------------- reporters/sarif.ts: JsonReporter --------------------- *)
\* JavaScript values: a ScanResult as JSON.stringify sees it
Undef == [t |-> "undefined"]

Null == [t |-> "null"]

Num(n) == [t |-> "number", v |-> n]

Str(s) == [t |-> "string", v |-> s]

Bool(b) == [t |-> "boolean", v |-> b]

Arr(items) == [t |-> "array", v |-> items]

Obj(members) == [t |-> "object", v |-> members]

Member(key, value) == [key |-> key, value |-> value]

\* the characters of a string held as tokens
RECURSIVE Concat(_)
Concat(tokens) ==
  IF tokens = <<>> THEN "" ELSE Head(tokens) \o Concat(Tail(tokens))

\* an optional string: undefined when it is not set
OptStr(x) == IF x = Undefined THEN Undef ELSE Str(x)

\* a Finding as the adapters build it; cwe is a key holding undefined
FindingValue(f) ==
  Obj(<<Member("id", Str(f.id)),
        Member("ruleId", Str(Concat(f.ruleId))),
        Member("source", Str(f.source)),
        Member("severity", Str(f.severity)),
        Member("category", Str(f.category)),
        Member("cwe", Undef),
        Member("file", Str(Concat(f.file))),
        Member("line", Num(f.line)),
        Member("snippet", Str(Concat(f.snippet))),
        Member("confidence", Num(f.confidence))>>
      \o (IF "suppressedBy" \in DOMAIN f
          THEN <<Member("suppressedBy", Str(f.suppressedBy))>> ELSE <<>>))

RunRecordValue(r) ==
  Obj(<<Member("name", Str(r.name)),
        Member("version", Str(r.version)),
        Member("exitCode", Num(r.exitCode)),
        Member("error", OptStr(r.error))>>)

\* the buckets in the order calculateStats writes them
SeverityOrder == <<"CRITICAL", "HIGH", "MEDIUM", "LOW", "INFO">>

CategoryOrder == <<"secrets", "injection", "auth", "crypto", "dependency", "other">>

SourceOrder == <<"truffleHog", "semgrep", "custom-npm", "custom-react", "custom-secrets">>

BucketsValue(buckets, order) ==
  Obj([i \in 1..Len(order) |-> Member(order[i], Num(buckets[order[i]]))])

StatsValue(stats) ==
  Obj(<<Member("total", Num(stats.total)),
        Member("bySeverity", BucketsValue(stats.bySeverity, SeverityOrder)),
        Member("byCategory", BucketsValue(stats.byCategory, CategoryOrder)),
        Member("bySource", BucketsValue(stats.bySource, SourceOrder)),
        Member("suppressedCount", Num(stats.suppressedCount))>>)

\* performance.parallelWorkers is undefined when the configuration has none
PerformanceValue(performance) ==
  Obj(<<Member("parallelWorkers",
               IF performance.parallelWorkers = <<>> THEN Undef
               ELSE Num(performance.parallelWorkers[1])),
        Member("cacheHitRate", Num(0)),
        Member("incrementalScan", Bool(performance.incrementalScan))>>)

ScanResultValue(scanResult) ==
  Obj(<<Member("version", Str("1.0.0")),
        Member("filesScanned", Num(0)),
        Member("toolsRun", Arr([i \in 1..Len(scanResult.toolsRun) |->
                                 RunRecordValue(scanResult.toolsRun[i])])),
        Member("findings", Arr([i \in 1..Len(scanResult.findings) |->
                                 FindingValue(scanResult.findings[i])])),
        Member("suppressed", Arr([i \in 1..Len(scanResult.suppressed) |->
                                 FindingValue(scanResult.suppressed[i])])),
        Member("stats", StatsValue(scanResult.stats)),
        Member("performance", PerformanceValue(scanResult.performance))>>)

\* JSON.stringify: the text of a number without its sign
NumberTextUnsigned(n) ==
  Concat(NumToString(IF n < 0 THEN 0 - n ELSE n))

\* JSON.stringify: the text of a finite number
NumberText(n) ==
  IF n < 0 THEN "-" \o Concat(NumToString(0 - n)) ELSE Concat(NumToString(n))

\* JSON.stringify: quotes and backslashes of a string are escaped
RECURSIVE EscapeChars(_)
EscapeChars(str) ==
  IF Len(str) = 0 THEN ""
  ELSE IF Len(str) = 1
  THEN (IF str = "\"" THEN "\\\"" ELSE IF str = "\\" THEN "\\\\" ELSE str)
  ELSE LET mid == Len(str) \div 2
       IN EscapeChars(SubSeq(str, 1, mid))
          \o EscapeChars(SubSeq(str, mid + 1, Len(str)))

Quote(str) == "\"" \o EscapeChars(str) \o "\""

\* the indentation of JSON.stringify(value, null, 2) at a nesting depth
RECURSIVE Indent(_)
Indent(depth) == IF depth = 0 THEN "" ELSE "  " \o Indent(depth - 1)

\* the members JSON.stringify writes: those that do not hold undefined
RECURSIVE Defined(_)
Defined(members) ==
  IF members = <<>> THEN <<>>
  ELSE IF Head(members).value.t = "undefined" THEN Defined(Tail(members))
  ELSE <<Head(members)>> \o Defined(Tail(members))

RECURSIVE JsonStringify(_, _)
RECURSIVE StringifyItems(_, _)
RECURSIVE StringifyMembers(_, _)
\* the items of an array, one per line; undefined is written as null
StringifyItems(items, depth) ==
  IF items = <<>> THEN ""
  ELSE Indent(depth)
       \o (IF Head(items).t = "undefined" THEN "null"
           ELSE JsonStringify(Head(items), depth))
       \o (IF Len(items) > 1 THEN ",\n" ELSE "\n")
       \o StringifyItems(Tail(items), depth)

StringifyMembers(members, depth) ==
  IF members = <<>> THEN ""
  ELSE Indent(depth) \o Quote(Head(members).key) \o ": "
       \o JsonStringify(Head(members).value, depth)
       \o (IF Len(members) > 1 THEN ",\n" ELSE "\n")
       \o StringifyMembers(Tail(members), depth)

\* JSON.stringify(value, null, 2) of a value nested depth levels deep
JsonStringify(value, depth) ==
  CASE value.t = "number" -> NumberText(value.v)
    [] value.t = "string" -> Quote(value.v)
    [] value.t = "boolean" -> (IF value.v THEN "true" ELSE "false")
    [] value.t = "null" -> "null"
    [] value.t = "array" ->
         IF value.v = <<>> THEN "[]"
         ELSE "[\n" \o StringifyItems(value.v, depth + 1) \o Indent(depth) \o "]"
    [] value.t = "object" ->
         IF Defined(value.v) = <<>> THEN "{}"
         ELSE "{\n" \o StringifyMembers(Defined(value.v), depth + 1)
              \o Indent(depth) \o "}"

\* JsonReporter.generate
JsonReporterGenerate(scanResult) == JsonStringify(ScanResultValue(scanResult), 0)

\* JSON.parse: the character at a position, "" after the end
CharAt(text, pos) == IF pos > Len(text) THEN "" ELSE SubSeq(text, pos, pos)

RECURSIVE SkipWhitespace(_, _)
SkipWhitespace(text, pos) ==
  IF CharAt(text, pos) \in {" ", "\n"} THEN SkipWhitespace(text, pos + 1) ELSE pos

DigitChars == {"0", "1", "2", "3", "4", "5", "6", "7", "8", "9"}

DigitValue(c) == CHOOSE d \in 0..9 : Digit(d) = c

Parsed(value, next) == [v |-> value, next |-> next]

SyntaxError == [t |-> "SyntaxError"]

\* the digits from pos on, added to the number read so far
RECURSIVE ParseDigits(_, _, _)
ParseDigits(text, pos, sofar) ==
  IF CharAt(text, pos) \in DigitChars
  THEN ParseDigits(text, pos + 1, 10 * sofar + DigitValue(CharAt(text, pos)))
  ELSE Parsed(sofar, pos)

ParseNumber(text, pos) ==
  IF CharAt(text, pos) = "-"
  THEN LET digits == ParseDigits(text, pos + 1, 0)
       IN Parsed(Num(0 - digits.v), digits.next)
  ELSE LET digits == ParseDigits(text, pos, 0)
       IN Parsed(Num(digits.v), digits.next)

\* the characters of a string read from lo up to hi or to its closing quote:
\* chars are those read, escaped tells that the last one was a backslash
\* that escapes the next, close is the position of the closing quote or 0
RECURSIVE ScanString(_, _, _, _)
ScanString(text, lo, hi, escaped) ==
  IF lo > hi THEN [chars |-> "", escaped |-> escaped, close |-> 0]
  ELSE IF lo = hi
  THEN LET c == CharAt(text, lo) IN
       IF escaped THEN [chars |-> c, escaped |-> FALSE, close |-> 0]
       ELSE IF c = "\\" THEN [chars |-> "", escaped |-> TRUE, close |-> 0]
       ELSE IF c = "\"" THEN [chars |-> "", escaped |-> FALSE, close |-> lo]
       ELSE [chars |-> c, escaped |-> FALSE, close |-> 0]
  ELSE LET mid == (lo + hi) \div 2
           left == ScanString(text, lo, mid, escaped)
           right == ScanString(text, mid + 1, hi, left.escaped)
       IN IF left.close # 0 THEN left
          ELSE [chars |-> left.chars \o right.chars,
                escaped |-> right.escaped, close |-> right.close]

\* the string that starts at pos, after its opening quote
ParseString(text, pos) ==
  LET scan == ScanString(text, pos, Len(text), FALSE)
  IN IF scan.close = 0 THEN Parsed(SyntaxError, pos)
     ELSE Parsed(Str(scan.chars), scan.close + 1)

RECURSIVE ParseValue(_, _)
RECURSIVE ParseItems(_, _, _)
RECURSIVE ParseMembers(_, _, _)
\* the items of an array from pos (after "[" or an item) on
ParseItems(text, pos, sofar) ==
  LET at == SkipWhitespace(text, pos)
      c == CharAt(text, at)
  IN IF c = "]" THEN Parsed(Arr(sofar), at + 1)
     ELSE IF c = "," THEN ParseItems(text, at + 1, sofar)
     ELSE LET item == ParseValue(text, at)
          IN IF item.v.t = "SyntaxError" THEN item
             ELSE ParseItems(text, item.next, Append(sofar, item.v))

\* the members of an object from pos (after "{" or a member) on
ParseMembers(text, pos, sofar) ==
  LET at == SkipWhitespace(text, pos)
      c == CharAt(text, at)
  IN IF c = "}" THEN Parsed(Obj(sofar), at + 1)
     ELSE IF c = "," THEN ParseMembers(text, at + 1, sofar)
     ELSE IF c # "\"" THEN Parsed(SyntaxError, at)
     ELSE LET key == ParseString(text, at + 1)
              colon == SkipWhitespace(text, key.next)
          IN IF key.v.t = "SyntaxError" \/ CharAt(text, colon) # ":"
             THEN Parsed(SyntaxError, colon)
             ELSE LET value == ParseValue(text, colon + 1)
                  IN IF value.v.t = "SyntaxError" THEN value
                     ELSE ParseMembers(text, value.next,
                                       Append(sofar, Member(key.v.v, value.v)))

ParseValue(text, pos) ==
  LET at == SkipWhitespace(text, pos)
      c == CharAt(text, at)
  IN CASE c = "{" -> ParseMembers(text, at + 1, <<>>)
       [] c = "[" -> ParseItems(text, at + 1, <<>>)
       [] c = "\"" -> ParseString(text, at + 1)
       [] c = "-" \/ c \in DigitChars -> ParseNumber(text, at)
       [] c = "t" -> Parsed(Bool(TRUE), at + 4)
       [] c = "f" -> Parsed(Bool(FALSE), at + 5)
       [] c = "n" -> Parsed(Null, at + 4)
       [] OTHER -> Parsed(SyntaxError, at)

JsonParse(text) == ParseValue(text, 1).v

(* -------------- scanner.ts: SARIFProcessor.mergeSARIFFiles ------------- *)
\* `${ruleId}:${location.artifactLocation.uri}:${location.region.startLine}`
createResultKey(ruleId, location) ==
  ruleId \o <<":">> \o location.uri \o <<":">> \o NumToString(location.startLine)

\* one iteration of the loop over run.results; location is "none" when
\* result.locations?.[0]?.physicalLocation is undefined, and reading
\* startLine of a location without region throws a TypeError
MergeResult(acc, result) ==
  IF acc.threw \/ result.location = "none" THEN acc
  ELSE IF result.location = "noRegion" THEN [acc EXCEPT !.threw = TRUE]
  ELSE LET key == createResultKey(result.ruleId, result)
       IN IF key \in acc.seenResults THEN acc
          ELSE [acc EXCEPT !.seenResults = @ \cup {key},
                           !.results = Append(@, result)]

RECURSIVE MergeResults(_, _)
MergeResults(acc, results) ==
  IF results = <<>> THEN acc
  ELSE MergeResult(MergeResults(acc, SubSeq(results, 1, Len(results) - 1)),
                   results[Len(results)])

\* one iteration of the loop over sarif.runs: mergedRun is pushed when it
\* holds a result; nothing is pushed when the loop over the results threw
MergeRun(state, run) ==
  IF state.threw THEN state
  ELSE LET acc == MergeResults([seenResults |-> state.seenResults,
                                results |-> <<>>, threw |-> FALSE],
                               run.results)
       IN [runs |-> IF ~acc.threw /\ Len(acc.results) > 0
                    THEN Append(state.runs,
                                [tool |-> run.tool, results |-> acc.results])
                    ELSE state.runs,
           seenResults |-> acc.seenResults,
           threw |-> acc.threw]

RECURSIVE MergeRuns(_, _)
MergeRuns(state, runs) ==
  IF runs = <<>> THEN state
  ELSE MergeRun(MergeRuns(state, SubSeq(runs, 1, Len(runs) - 1)),
                runs[Len(runs)])

\* one iteration of the loop over inputFiles: readFile or JSON.parse throws
\* for a file that is not a report, and the catch block goes on with what
\* merged.runs and seenResults hold at the throw
MergeFile(state, file) ==
  IF file.kind # "report" THEN state
  ELSE [MergeRuns(state, file.runs) EXCEPT !.threw = FALSE]

RECURSIVE MergeFiles(_, _)
MergeFiles(state, files) ==
  IF files = <<>> THEN state
  ELSE MergeFile(MergeFiles(state, SubSeq(files, 1, Len(files) - 1)),
                 files[Len(files)])

\* merged.runs as written to the output file
mergeSARIFFiles(inputFiles) ==
  MergeFiles([runs |-> <<>>, seenResults |-> {}, threw |-> FALSE],
             inputFiles).runs

(* ------------------------------- state --------------------------------- *)
VARIABLES
  adapters,        \* this.adapters: the configured producers 1..adapters
  parallelWorkers, \* config.performance.parallelWorkers: <<>> (missing) or <<n>>
  fpConfig,        \* config.falsePositives
  unreadable,      \* files whose read fails
  phase,           \* "idle", "running", "returned", "finalized"
  pc,              \* per producer task: "queued", "probing", "scanning", "done"
  queue,           \* p-limit: the tasks waiting for a slot, in order
  activeCount,     \* p-limit: the tasks holding a slot
  scanCalled,      \* producers whose scan() has been called
  outcome,         \* per producer: how its probe and scan settled, and with what
  toolsRun,        \* the run records, as a multiset: their order is not kept
  allFindings,     \* the raw-finding accumulator
  rawResult,       \* what ScanOrchestrator.scan resolved with
  result,          \* the finalized ScanResult of scanCommand
  input,           \* argument of a pure function under test
  output,          \* its result
  cursor,          \* filterFindings: the iterations of its loop begun so far
  reading,         \* filterFindings: the iterations whose readFile is in flight
  retry            \* executeWithRetry: attempt, lastResult, calls of testFn

vars ==
  <<adapters, parallelWorkers, fpConfig, unreadable, phase, pc, queue,
    activeCount, scanCalled, outcome, toolsRun, allFindings, rawResult, result,
    input, output, cursor, reading, retry>>

\* the state of a scan, untouched by the specifications of the pure functions
scanState ==
  <<adapters, parallelWorkers, pc, queue, activeCount, scanCalled, outcome,
    toolsRun, allFindings, rawResult, result>>

\* executeWithRetry has not been called
NoRetry == [attempt |-> 0, lastResult |-> Undefined, calls |-> 0]

\* the position of a running filterFindings, untouched everywhere else
readState == <<cursor, reading>>

Adapters == 1..adapters

\* the producers scanCommand configures, in order
AdapterNames ==
  <<"truffleHog", "semgrep", "malicious-package-scanner",
    "technical-debt-analyzer", "hardcoded-secrets-analyzer">>

Name(a) == IF a <= Len(AdapterNames) THEN AdapterNames[a] ELSE "mock-adapter"

\* what a producer's scan resolves with
Batches(a) ==
  CASE a = 1 -> {<<F1>>}
    [] a = 2 -> {<<F2, FTest>>}
    [] a = 3 -> {<<FMock, F3>>}
    [] a = 5 -> {<<FReal>>}
    [] OTHER -> {<<>>}

\* error.message of what a producer throws
ProbeError(a) == "spawn ENOENT"

ScanError(a) == "Scan failed"

\* a limiter that ignores the configured width
WidthIgnoresConfig(workers) == DefaultWorkers

\* config.performance.parallelWorkers || 4
Width(workers) ==
  IF workers = <<>> \/ workers[1] = 0 THEN DefaultWorkers ELSE workers[1]

\* how a producer settled: "pending", "false" (probe resolved false),
\* "probeThrew", "scanThrew" or "resolved" (scan resolved with findings)
Settled(kind, findings) == [kind |-> kind, findings |-> findings]

NoResult == [findings |-> <<>>, suppressed |-> <<>>, stats |-> ZeroStats,
             toolsRun |-> EmptyBag]

Init ==
  /\ adapters \in 0..MaxAdapters
  /\ parallelWorkers \in {<<>>} \cup {<<n>> : n \in 0..MaxWorkers}
  /\ fpConfig = DEFAULT_CONFIG
  /\ unreadable = {}
  /\ phase = "idle"
  /\ pc = [a \in Adapters |-> "queued"]
  /\ queue = <<>>
  /\ activeCount = 0
  /\ scanCalled = {}
  /\ outcome = [a \in Adapters |-> Settled("pending", <<>>)]
  /\ toolsRun = EmptyBag
  /\ allFindings = <<>>
  /\ rawResult = NoResult
  /\ result = NoResult
  /\ input = <<>>
  /\ output = <<>>
  /\ cursor = 0
  /\ reading = {}
  /\ retry = NoRetry


(* ----------------------- ScanOrchestrator.scan ------------------------- *)
RunRecord(name, exitCode, error) ==
  [name |-> name, version |-> "unknown", exitCode |-> exitCode, error |-> error]

\* scan(config) is called: limit = pLimit(parallelWorkers || 4) and every
\* adapter's task is handed to the limiter, which starts the first ones; a
\* started task runs up to its first await, the availability probe
Scan ==
  /\ phase = "idle"
  /\ LET started == Min(Width(parallelWorkers), adapters)
     IN /\ pc' = [a \in Adapters |-> IF a <= started THEN "probing" ELSE "queued"]
        /\ queue' = [i \in 1..(adapters - started) |-> started + i]
        /\ activeCount' = started
  /\ phase' = "running"
  /\ UNCHANGED <<adapters, parallelWorkers, fpConfig, unreadable, scanCalled,
                 outcome, toolsRun, allFindings, rawResult, result, input,
                 output,
                 readState, retry>>

\* the task of adapter a pushes its run record and settles; p-limit's next()
\* frees the slot and starts the head of the queue
Finish(a, record) ==
  /\ toolsRun' = toolsRun (+) SetToBag({record})
  /\ IF queue # <<>>
     THEN /\ pc' = [pc EXCEPT ![a] = "done", ![Head(queue)] = "probing"]
          /\ queue' = Tail(queue)
          /\ activeCount' = (activeCount - 1) + 1
     ELSE /\ pc' = [pc EXCEPT ![a] = "done"]
          /\ queue' = queue
          /\ activeCount' = activeCount - 1

\* isAvailable() resolved true: adapter.scan(config) is called
ProbeTrue(a) ==
  /\ phase = "running" /\ pc[a] = "probing"
  /\ pc' = [pc EXCEPT ![a] = "scanning"]
  /\ scanCalled' = scanCalled \cup {a}
  /\ UNCHANGED <<adapters, parallelWorkers, fpConfig, unreadable, phase, queue,
                 activeCount, outcome, toolsRun, allFindings, rawResult,
                 result, input, output,
                 readState, retry>>

\* an unavailable producer whose task does not return before calling scan
ProbeFalseNoReturn(a) ==
  /\ phase = "running" /\ pc[a] = "probing"
  /\ pc' = [pc EXCEPT ![a] = "scanning"]
  /\ scanCalled' = scanCalled \cup {a}
  /\ outcome' = [outcome EXCEPT ![a] = Settled("false", <<>>)]
  /\ toolsRun' = toolsRun (+) SetToBag({RunRecord(Name(a), -1, "Tool not available")})
  /\ UNCHANGED <<adapters, parallelWorkers, fpConfig, unreadable, phase, queue,
                 activeCount, allFindings, rawResult, result, input, output,
                 readState, retry>>

\* isAvailable() resolved false
ProbeFalse(a) ==
  /\ phase = "running" /\ pc[a] = "probing"
  /\ Finish(a, RunRecord(Name(a), -1, "Tool not available"))
  /\ outcome' = [outcome EXCEPT ![a] = Settled("false", <<>>)]
  /\ UNCHANGED <<adapters, parallelWorkers, fpConfig, unreadable, phase,
                 scanCalled, allFindings, rawResult, result, input, output,
                 readState, retry>>

\* isAvailable() threw or rejected: the catch block
ProbeThrows(a) ==
  /\ phase = "running" /\ pc[a] = "probing"
  /\ Finish(a, RunRecord(Name(a), 1, ProbeError(a)))
  /\ outcome' = [outcome EXCEPT ![a] = Settled("probeThrew", <<>>)]
  /\ UNCHANGED <<adapters, parallelWorkers, fpConfig, unreadable, phase,
                 scanCalled, allFindings, rawResult, result, input, output,
                 readState, retry>>

\* a task that hands its findings to the accumulator one at a time and is
\* overtaken after the first
ScanResolvesPartial(a) ==
  /\ phase = "running" /\ pc[a] = "scanning"
  /\ \E findings \in Batches(a) :
       /\ allFindings' = allFindings \o SubSeq(findings, 1, Min(1, Len(findings)))
       /\ outcome' = [outcome EXCEPT ![a] = Settled("resolved", findings)]
  /\ Finish(a, RunRecord(Name(a), 0, Undefined))
  /\ UNCHANGED <<adapters, parallelWorkers, fpConfig, unreadable, phase,
                 scanCalled, rawResult, result, input, output,
                 readState, retry>>

\* scan() resolved with a batch of findings
ScanResolves(a) ==
  /\ phase = "running" /\ pc[a] = "scanning"
  /\ \E findings \in Batches(a) :
       /\ allFindings' = allFindings \o findings
       /\ outcome' = [outcome EXCEPT ![a] = Settled("resolved", findings)]
  /\ Finish(a, RunRecord(Name(a), 0, Undefined))
  /\ UNCHANGED <<adapters, parallelWorkers, fpConfig, unreadable, phase,
                 scanCalled, rawResult, result, input, output,
                 readState, retry>>

\* a catch block that records the failed producer as a success
ScanRejectsSwallowed(a) ==
  /\ phase = "running" /\ pc[a] = "scanning"
  /\ Finish(a, RunRecord(Name(a), 0, Undefined))
  /\ outcome' = [outcome EXCEPT ![a] = Settled("scanThrew", <<>>)]
  /\ UNCHANGED <<adapters, parallelWorkers, fpConfig, unreadable, phase,
                 scanCalled, allFindings, rawResult, result, input, output,
                 readState, retry>>

\* a task without the catch block: the rejection of scan() reaches
\* Promise.all and scan rejects
ScanRejectsPropagates(a) ==
  /\ phase = "running" /\ pc[a] = "scanning"
  /\ phase' = "rejected"
  /\ outcome' = [outcome EXCEPT ![a] = Settled("scanThrew", <<>>)]
  /\ UNCHANGED <<adapters, parallelWorkers, fpConfig, unreadable, pc, queue,
                 activeCount, toolsRun, scanCalled, allFindings, rawResult,
                 result, input, output,
                 readState, retry>>

\* scan() threw or rejected: the catch block
ScanRejects(a) ==
  /\ phase = "running" /\ pc[a] = "scanning"
  /\ Finish(a, RunRecord(Name(a), 1, ScanError(a)))
  /\ outcome' = [outcome EXCEPT ![a] = Settled("scanThrew", <<>>)]
  /\ UNCHANGED <<adapters, parallelWorkers, fpConfig, unreadable, phase,
                 scanCalled, allFindings, rawResult, result, input, output,
                 readState, retry>>

\* a scan that goes on as soon as one task has settled
ReturnAfterFirst ==
  /\ phase = "running"
  /\ \E a \in Adapters : pc[a] = "done"
  /\ \E uniqueFindings \in {deduplicateFindings(allFindings)} :
       \E stats \in {calculateStats(uniqueFindings)} :
         rawResult' = [findings |-> uniqueFindings, suppressed |-> <<>>,
                       stats |-> stats, toolsRun |-> toolsRun]
  /\ phase' = "returned"
  /\ UNCHANGED <<adapters, parallelWorkers, fpConfig, unreadable, pc, queue,
                 activeCount, scanCalled, outcome, toolsRun, allFindings, result,
                 input, output,
                 readState, retry>>

\* Promise.all resolved: deduplicate, calculate the statistics, return
Return ==
  /\ phase = "running"
  /\ \A a \in Adapters : pc[a] = "done"
  /\ \E uniqueFindings \in {deduplicateFindings(allFindings)} :
       \E stats \in {calculateStats(uniqueFindings)} :
         rawResult' = [findings |-> uniqueFindings, suppressed |-> <<>>,
                       stats |-> stats, toolsRun |-> toolsRun]
  /\ phase' = "returned"
  /\ UNCHANGED <<adapters, parallelWorkers, fpConfig, unreadable, pc, queue,
                 activeCount, scanCalled, outcome, toolsRun, allFindings, result,
                 input, output,
                 readState, retry>>

\* scanCommand: filterFindings on rawResult.findings, then
\* result = { ...rawResult, findings, suppressed }
ScanCommand ==
  /\ phase = "returned"
  /\ LET filtered == filterFindings(fpConfig, unreadable, rawResult.findings)
     IN result' = [rawResult EXCEPT !.findings = filtered.findings,
                                    !.suppressed = filtered.suppressed]
  /\ phase' = "finalized"
  /\ UNCHANGED <<adapters, parallelWorkers, fpConfig, unreadable, pc, queue,
                 activeCount, scanCalled, outcome, toolsRun, allFindings, rawResult,
                 input, output,
                 readState, retry>>

Next ==
  \/ Scan
  \/ \E a \in Adapters : ProbeTrue(a)
  \/ \E a \in Adapters : ProbeFalse(a)
  \/ \E a \in Adapters : ProbeThrows(a)
  \/ \E a \in Adapters : ScanResolves(a)
  \/ \E a \in Adapters : ScanRejects(a)
  \/ Return
  \/ ScanCommand

Spec == Init /\ [][Next]_vars

\* a scan of up to MaxLiveAdapters producers
InitLive == Init /\ adapters <= MaxLiveAdapters

\* the probe or the scan of producer a settles
Settles(a) ==
  /\ a \in Adapters
  /\ \/ ProbeTrue(a) \/ ProbeFalse(a) \/ ProbeThrows(a)
     \/ ScanResolves(a) \/ ScanRejects(a)

\* every probe and every scan that was started settles, and the event loop
\* runs the continuation of Promise.all once it is ready
SpecLive ==
  /\ InitLive /\ [][Next]_vars
  /\ \A a \in 1..MaxLiveAdapters : WF_vars(Settles(a))
  /\ WF_vars(Return)

(* ------------- specifications of the pure functions -------------------- *)
BoundedSeq(S, n) == UNION {[1..k -> S] : k \in 0..n}

InitPure ==
  /\ adapters = 0
  /\ parallelWorkers = <<>>
  /\ phase = "input"
  /\ pc = <<>>
  /\ queue = <<>>
  /\ activeCount = 0
  /\ scanCalled = {}
  /\ outcome = <<>>
  /\ toolsRun = EmptyBag
  /\ allFindings = <<>>
  /\ rawResult = NoResult
  /\ result = NoResult
  /\ output = <<>>
  /\ cursor = 0
  /\ reading = {}
  /\ retry = NoRetry

\* deduplicateFindings applied to any raw list
InitDedup ==
  /\ InitPure
  /\ fpConfig = DEFAULT_CONFIG
  /\ unreadable = {}
  /\ input \in BoundedSeq(Findings, MaxRaw)

ApplyDedup ==
  /\ phase = "input"
  /\ output' = deduplicateFindings(input)
  /\ phase' = "output"
  /\ UNCHANGED <<scanState, readState, retry, fpConfig, unreadable, input>>

NextDedup == ApplyDedup

SpecDedup == InitDedup /\ [][NextDedup]_vars

\* deduplicateFindings applied to findings whose file and ruleId strings
\* may contain ":"
ColonFindings ==
  {Finding("f17", ruleId, "semgrep", "HIGH", "other", file, line, SnipKey,
           confidence) :
     ruleId \in {<<"x">>, <<"2", ":", "x">>},
     file \in {<<"a">>, <<"a", ":", "1">>},
     line \in {1, 2}, confidence \in {50, 90}}

InitDedupKeys ==
  /\ InitPure
  /\ fpConfig = DEFAULT_CONFIG
  /\ unreadable = {}
  /\ input \in BoundedSeq(ColonFindings, MaxRaw)

SpecDedupKeys == InitDedupKeys /\ [][NextDedup]_vars

\* deduplicateFindings applied to any raw list and then to its own result
InitDedupTwice ==
  /\ InitPure
  /\ fpConfig = DEFAULT_CONFIG
  /\ unreadable = {}
  /\ input \in BoundedSeq(Findings, MaxRaw) \cup BoundedSeq(ColonFindings, MaxRaw)

ApplyDedupAgain ==
  /\ phase = "output"
  /\ output' = deduplicateFindings(output)
  /\ phase' = "again"
  /\ UNCHANGED <<scanState, readState, retry, fpConfig, unreadable, input>>

NextDedupTwice == ApplyDedup \/ ApplyDedupAgain

SpecDedupTwice == InitDedupTwice /\ [][NextDedupTwice]_vars

\* filterFindings applied to any list, configuration and file system
InitFilter ==
  /\ InitPure
  /\ fpConfig \in FpConfigs
  /\ unreadable \in {{}, {FileT, FileB}, ExistingFiles}
  /\ input \in BoundedSeq(Findings, MaxFindings)

ApplyFilter ==
  /\ phase = "input"
  /\ output' = filterFindings(fpConfig, unreadable, input)
  /\ phase' = "output"
  /\ UNCHANGED <<scanState, readState, retry, fpConfig, unreadable, input>>

NextFilter == ApplyFilter

SpecFilter == InitFilter /\ [][NextFilter]_vars

\* the reporters applied to the result of filtering any raw list with the
\* default configuration, with the source files readable or not
InitSarif ==
  /\ InitPure
  /\ fpConfig = DEFAULT_CONFIG
  /\ unreadable \in {{}, ExistingFiles}
  /\ \E raw \in BoundedSeq(Findings, MaxRaw) :
       input = filterFindings(fpConfig, unreadable, raw)

ApplySarifReporter ==
  /\ phase = "input"
  /\ output' = SarifReporterGenerate(input)
  /\ phase' = "SarifReporter"
  /\ UNCHANGED <<scanState, readState, retry, fpConfig, unreadable, input>>

ApplyGenerateSARIF ==
  /\ phase = "input"
  /\ output' = generateSARIF(input, DefaultSourceRoot)
  /\ phase' = "SARIFProcessor"
  /\ UNCHANGED <<scanState, readState, retry, fpConfig, unreadable, input>>

NextSarif == ApplySarifReporter \/ ApplyGenerateSARIF

SpecSarif == InitSarif /\ [][NextSarif]_vars

\* the run records a scan can write
RunRecords ==
  {RunRecord("truffleHog", -1, "Tool not available"),
   RunRecord("semgrep", 0, Undefined),
   RunRecord("mock-adapter", 1, "Scan failed")}

\* the findings reported: duplicates, kept and suppressed ones, with quotes
\* in their snippets
JsonFindings == {F1, F2, FTest, FMock, FReal}

\* JsonReporter applied to the results scanCommand can build: any raw list,
\* deduplicated, counted and filtered, with any run records
InitJson ==
  /\ InitPure
  /\ fpConfig = DEFAULT_CONFIG
  /\ unreadable = {}
  /\ \E raw \in BoundedSeq(JsonFindings, MaxJsonFindings),
        runs \in BoundedSeq(RunRecords, MaxRuns),
        workers \in {<<>>, <<DefaultWorkers>>} :
       LET uniqueFindings == deduplicateFindings(raw)
           filtered == filterFindings(fpConfig, unreadable, uniqueFindings)
       IN input = [findings |-> filtered.findings,
                   suppressed |-> filtered.suppressed,
                   stats |-> calculateStats(uniqueFindings),
                   toolsRun |-> runs,
                   performance |-> [parallelWorkers |-> workers,
                                    incrementalScan |-> FALSE]]

\* generate, then JSON.parse of what it returned
ApplyJsonReporter ==
  /\ phase = "input"
  /\ output' = JsonParse(JsonReporterGenerate(input))
  /\ phase' = "parsed"
  /\ UNCHANGED <<scanState, readState, retry, fpConfig, unreadable, input>>

NextJson == ApplyJsonReporter

SpecJson == InitJson /\ [][NextJson]_vars

\* calculateStats applied to any list of findings
InitStats ==
  /\ InitPure
  /\ fpConfig = DEFAULT_CONFIG
  /\ unreadable = {}
  /\ input \in BoundedSeq(Findings, MaxRaw)

ApplyStats ==
  /\ phase = "input"
  /\ output' = calculateStats(input)
  /\ phase' = "output"
  /\ UNCHANGED <<scanState, readState, retry, fpConfig, unreadable, input>>

NextStats == ApplyStats

SpecStats == InitStats /\ [][NextStats]_vars

\* the inline-directive stage of shouldSuppress applied to a finding at any
\* line of a readable file of any length, with a marker on any of its lines;
\* the other lines have no test keyword, so that the stage is reached
MarkerLines == {<<"//", "nosec">>, <<"x", "#", "noqa">>}

InitInline ==
  /\ InitPure
  /\ fpConfig = DEFAULT_CONFIG
  /\ unreadable = {}
  /\ \E n \in 1..MaxFileLines, marker \in MarkerLines :
       \E content \in [1..n -> {PlainLine, marker}], line \in 1..n :
         input = [content |-> content, line |-> line]

ApplyInline ==
  /\ phase = "input"
  /\ \E context \in {ContextOf(input.content, input.line)} :
       output' = (Truthy(context) /\ hasNoSecComment(context, input.line))
  /\ phase' = "output"
  /\ UNCHANGED <<scanState, readState, retry, fpConfig, unreadable, input>>

NextInline == ApplyInline

SpecInline == InitInline /\ [][NextInline]_vars

\* SarifReporter.generate applied to kept findings of every severity whose
\* confidences lie on and next to the limits of the precision buckets, after
\* a filter that suppresses FMock
BoundaryConfidences == {0, 49, 50, 74, 75, 89, 90, 100}

GradedFindings ==
  {Finding("f16", ruleId, "semgrep", severity, "other", FileA, 1, SnipKey,
           confidence) :
     ruleId \in {<<"r1">>, <<"r2">>}, severity \in Severities,
     confidence \in BoundaryConfidences}

InitPrecision ==
  /\ InitPure
  /\ fpConfig = DEFAULT_CONFIG
  /\ unreadable = {}
  /\ \E raw \in BoundedSeq(GradedFindings \cup {FMock}, MaxFindings) :
       input = filterFindings(fpConfig, unreadable, raw)

ApplyPrecision ==
  /\ phase = "input"
  /\ output' = SarifReporterGenerate(input)
  /\ phase' = "output"
  /\ UNCHANGED <<scanState, readState, retry, fpConfig, unreadable, input>>

NextPrecision == ApplyPrecision

SpecPrecision == InitPrecision /\ [][NextPrecision]_vars

\* the public-key stage of shouldSuppress applied to a finding of any
\* category, with or without a provider signature in its snippet, in a file
\* whose name does or does not say config, with any context of two lines
SnipMaps == <<"google", "maps", "api", "key">>

KeyFiles == {FilePub, FileConfig}

KeyLines ==
  {PlainLine, <<"//", "public", "stripe", "key">>,
   <<"const", "config", "=", "{">>, <<"search", "index">>}

KeyFindings ==
  {Finding("f15", <<"r7">>, "custom-secrets", "CRITICAL", category, file, 1,
           snippet, 90) :
     category \in {"secrets", "auth"}, file \in KeyFiles,
     snippet \in {SnipPk, SnipKey, SnipMaps}}

InitPublicKey ==
  /\ InitPure
  /\ fpConfig = DEFAULT_CONFIG
  /\ unreadable = {}
  /\ \E finding \in KeyFindings, content \in BoundedSeq(KeyLines, 2) :
       /\ content # <<>>
       /\ input = [finding |-> finding, content |-> content]

ApplyPublicKey ==
  /\ phase = "input"
  /\ \E context \in {ContextOf(input.content, input.finding.line)} :
       output' = isLegitimatePublicApiKey(input.finding, context)
  /\ phase' = "output"
  /\ UNCHANGED <<scanState, readState, retry, fpConfig, unreadable, input>>

NextPublicKey == ApplyPublicKey

SpecPublicKey == InitPublicKey /\ [][NextPublicKey]_vars

(* ------------- rule-engine.ts: filterFindings, step by step ------------ *)
\* shouldSuppress up to its first await: the verdict of the exclusion globs,
\* the custom rules and the naming prefix, or Keep when it goes on to
\* getContext
BeforeRead(config, finding) ==
  LET custom == FirstCustomMatch(config, finding)
  IN IF matchesExclusionPattern(config, finding.file)
     THEN Suppress("File matches exclusion pattern (test/docs/dependencies)")
     ELSE IF custom # 0
     THEN Suppress(customPatterns(config)[custom].reason)
     ELSE IF hasTestPrefix(finding.snippet)
     THEN Suppress("Variable has test/mock prefix (MOCK_, TEST_, etc.)")
     ELSE Keep

\* the body of the loop after shouldSuppress has resolved
Push(lists, finding, verdict) ==
  IF verdict.suppress
  THEN [lists EXCEPT !.suppressed =
          Append(@, WithSuppressedBy(finding, verdict.reason))]
  ELSE [lists EXCEPT !.findings = Append(@, finding)]

\* the findings handed to the step-by-step filterFindings: suppressed before
\* the read, by the context, by a marker, and kept
ReadFindings == {FMock, FCtx, FNosec, F1, FReal}

InitReads ==
  /\ adapters = 0
  /\ parallelWorkers \in {<<>>} \cup {<<n>> : n \in 0..MaxWorkers}
  /\ phase = "input"
  /\ pc = <<>>
  /\ queue = <<>>
  /\ activeCount = 0
  /\ scanCalled = {}
  /\ outcome = <<>>
  /\ toolsRun = EmptyBag
  /\ allFindings = <<>>
  /\ rawResult = NoResult
  /\ result = NoResult
  /\ output = <<>>
  /\ cursor = 0
  /\ reading = {}
  /\ retry = NoRetry
  /\ fpConfig = DEFAULT_CONFIG
  /\ unreadable \in {{}, ExistingFiles}
  /\ input \in BoundedSeq(ReadFindings, MaxRaw)

\* filterFindings(findings, config) is called
FilterCalled ==
  /\ phase = "input"
  /\ output' = [findings |-> <<>>, suppressed |-> <<>>]
  /\ phase' = "filtering"
  /\ UNCHANGED <<scanState, readState, retry, fpConfig, unreadable, input>>

\* the next iteration: shouldSuppress returns before it reads
IterationSettlesEarly ==
  /\ phase = "filtering"
  /\ reading = {}
  /\ cursor < Len(input)
  /\ \E verdict \in {BeforeRead(fpConfig, input[cursor + 1])} :
       /\ verdict.suppress
       /\ output' = Push(output, input[cursor + 1], verdict)
  /\ cursor' = cursor + 1
  /\ UNCHANGED <<scanState, retry, reading, phase, fpConfig, unreadable, input>>

\* a loop that starts shouldSuppress for the next finding while the reads of
\* the earlier ones are in flight
IterationReadsConcurrent ==
  /\ phase = "filtering"
  /\ cursor < Len(input)
  /\ ~BeforeRead(fpConfig, input[cursor + 1]).suppress
  /\ reading' = reading \cup {cursor + 1}
  /\ cursor' = cursor + 1
  /\ UNCHANGED <<scanState, retry, phase, fpConfig, unreadable, input, output>>

\* the next iteration: shouldSuppress calls getContext, whose readFile is
\* awaited; the loop awaits shouldSuppress
IterationReads ==
  /\ phase = "filtering"
  /\ reading = {}
  /\ cursor < Len(input)
  /\ ~BeforeRead(fpConfig, input[cursor + 1]).suppress
  /\ reading' = reading \cup {cursor + 1}
  /\ cursor' = cursor + 1
  /\ UNCHANGED <<scanState, retry, phase, fpConfig, unreadable, input, output>>

\* readFile of iteration i resolves or rejects; shouldSuppress runs to its
\* return and the loop pushes the finding
ReadSettles(i) ==
  /\ i \in reading
  /\ \E verdict \in {shouldSuppress(fpConfig, unreadable, input[i])} :
       output' = Push(output, input[i], verdict)
  /\ reading' = reading \ {i}
  /\ UNCHANGED <<scanState, retry, cursor, phase, fpConfig, unreadable, input>>

\* the loop is over: return { findings: filtered, suppressed }
FilterReturns ==
  /\ phase = "filtering"
  /\ cursor = Len(input)
  /\ reading = {}
  /\ phase' = "output"
  /\ UNCHANGED <<scanState, readState, retry, fpConfig, unreadable, input, output>>

NextReads ==
  \/ FilterCalled
  \/ IterationSettlesEarly
  \/ IterationReads
  \/ \E i \in 1..MaxRaw : ReadSettles(i)
  \/ FilterReturns

SpecReads == InitReads /\ [][NextReads]_vars

\* mergeSARIFFiles applied to files that cannot be read, cannot be parsed or
\* hold up to two runs, whose results repeat a triple, have no location, have
\* a location without region, or have a ":" in ruleId or uri
SarifResult(ruleId, location, uri, startLine, text) ==
  [ruleId |-> ruleId, location |-> location, uri |-> uri,
   startLine |-> startLine, text |-> text]

SarifResults ==
  {SarifResult(<<"x">>, "physicalLocation", <<"a">>, 1, "first"),
   SarifResult(<<"x">>, "physicalLocation", <<"a">>, 1, "second"),
   SarifResult(<<"x">>, "physicalLocation", <<"a", ":", "b">>, 1, "third"),
   SarifResult(<<"x", ":", "a">>, "physicalLocation", <<"b">>, 1, "fourth"),
   SarifResult(<<"x">>, "none", <<>>, 0, "fifth"),
   SarifResult(<<"x">>, "noRegion", <<"a">>, 0, "sixth")}

SarifRuns(n) ==
  {[tool |-> "semgrep", results |-> results] :
     results \in BoundedSeq(SarifResults, n)}

Report(runs) == [kind |-> "report", runs |-> runs]

SarifFiles ==
  {[kind |-> "unreadable", runs |-> <<>>], [kind |-> "unparsable", runs |-> <<>>]}
    \cup {Report(runs) : runs \in BoundedSeq(SarifRuns(MaxSarifResults), 1)}
    \cup {Report(<<a, b>>) : a \in SarifRuns(1), b \in SarifRuns(1)}

InitMerge ==
  /\ InitPure
  /\ fpConfig = DEFAULT_CONFIG
  /\ unreadable = {}
  /\ input \in BoundedSeq(SarifFiles, MaxSarifFiles)

ApplyMerge ==
  /\ phase = "input"
  /\ output' = mergeSARIFFiles(input)
  /\ phase' = "output"
  /\ UNCHANGED <<scanState, readState, retry, fpConfig, unreadable, input>>

NextMerge == ApplyMerge

SpecMerge == InitMerge /\ [][NextMerge]_vars

(* ---------------- part_006: FlakyTestManager.executeWithRetry ---------- *)
\* what the k-th call of testFn does: resolve with a result of some status
\* or reject
Behaviours == {"pass", "fail", "flaky", "throw"}

\* the TestResult the k-th call resolves with
TestResult(status, k) == [status |-> status, call |-> k]

\* the error the k-th call rejects with
TestError(k) == [message |-> "Test failed", call |-> k]

\* executeWithRetry(testFn) with any maxRetries and any test function
InitRetry ==
  /\ InitPure
  /\ fpConfig = DEFAULT_CONFIG
  /\ unreadable = {}
  /\ \E maxRetries \in 0..MaxRetries :
       \E script \in [1..(MaxRetries + 1) -> Behaviours] :
         input = [maxRetries |-> maxRetries, script |-> script]

\* executeWithRetry is called: let lastResult; attempt = 1
ExecuteWithRetry ==
  /\ phase = "input"
  /\ retry' = [attempt |-> 1, lastResult |-> Undefined, calls |-> 0]
  /\ phase' = "loop"
  /\ UNCHANGED <<scanState, readState, fpConfig, unreadable, input, output>>

\* the loop condition holds: testFn() is called and awaited
CallTestFn ==
  /\ phase = "loop"
  /\ retry.attempt <= input.maxRetries + 1
  /\ retry' = [retry EXCEPT !.calls = @ + 1]
  /\ phase' = "calling"
  /\ UNCHANGED <<scanState, readState, fpConfig, unreadable, input, output>>

\* testFn resolves: return on pass, otherwise wait before the next attempt
\* unless this was the last one
TestResolves ==
  /\ phase = "calling"
  /\ input.script[retry.calls] # "throw"
  /\ \E lastResult \in {TestResult(input.script[retry.calls], retry.calls)} :
       IF lastResult.status = "pass"
       THEN /\ retry' = [retry EXCEPT !.lastResult = lastResult]
            /\ output' = lastResult
            /\ phase' = "returned"
       ELSE IF retry.attempt <= input.maxRetries
       THEN /\ retry' = [retry EXCEPT !.lastResult = lastResult]
            /\ phase' = "delaying"
            /\ UNCHANGED output
       ELSE /\ retry' = [retry EXCEPT !.lastResult = lastResult,
                                      !.attempt = @ + 1]
            /\ phase' = "loop"
            /\ UNCHANGED output
  /\ UNCHANGED <<scanState, readState, fpConfig, unreadable, input>>

\* a catch block that rethrows at once
TestRejectsNoRetry ==
  /\ phase = "calling"
  /\ input.script[retry.calls] = "throw"
  /\ output' = TestError(retry.calls)
  /\ phase' = "thrown"
  /\ UNCHANGED <<scanState, readState, retry, fpConfig, unreadable, input>>

\* testFn rejects: rethrow after the last attempt, otherwise wait
TestRejects ==
  /\ phase = "calling"
  /\ input.script[retry.calls] = "throw"
  /\ IF retry.attempt > input.maxRetries
     THEN /\ output' = TestError(retry.calls)
          /\ phase' = "thrown"
     ELSE /\ phase' = "delaying"
          /\ UNCHANGED output
  /\ UNCHANGED <<scanState, readState, retry, fpConfig, unreadable, input>>

\* the delay of backoffMs * attempt is over: attempt++
DelayElapses ==
  /\ phase = "delaying"
  /\ retry' = [retry EXCEPT !.attempt = @ + 1]
  /\ phase' = "loop"
  /\ UNCHANGED <<scanState, readState, fpConfig, unreadable, input, output>>

\* the loop condition fails: return lastResult
LoopEnds ==
  /\ phase = "loop"
  /\ retry.attempt > input.maxRetries + 1
  /\ output' = retry.lastResult
  /\ phase' = "returned"
  /\ UNCHANGED <<scanState, readState, retry, fpConfig, unreadable, input>>

NextRetry ==
  \/ ExecuteWithRetry
  \/ CallTestFn
  \/ TestResolves
  \/ TestRejects
  \/ DelayElapses
  \/ LoopEnds

SpecRetry == InitRetry /\ [][NextRetry]_vars

(* ============================== claims ================================= *)
InFlight == {a \in Adapters : pc[a] \in {"probing", "scanning"}}

Returned == phase \in {"returned", "finalized"}

\* the run records of producer a
RecordsOf(a, records) == {r \in BagToSet(records) : r.name = Name(a)}

ExactlyOneRecord(a, records) ==
  /\ Cardinality(RecordsOf(a, records)) = 1
  /\ \A r \in RecordsOf(a, records) : CopiesIn(r, records) = 1

\* the ids of the findings producer a can return
ProducerIds(a) == UNION {{b[i].id : i \in 1..Len(b)} : b \in Batches(a)}

\* C1: at every moment of a scan the number of producer tasks that have
\* started and not yet settled is at most W, W being the configured
\* parallelWorkers, or 4 when that is 0 or missing.
C1_BoundedConcurrency ==
  Cardinality(InFlight) <=
    (IF parallelWorkers = <<>> \/ parallelWorkers[1] = 0
     THEN 4 ELSE parallelWorkers[1])

\* the default width is in use, the fifth producer was admitted after a
\* release and the limit is reached again
C1_Witness ==
  /\ parallelWorkers \in {<<>>, <<0>>}
  /\ adapters >= 5
  /\ pc[5] = "probing"
  /\ Cardinality(InFlight) = 4

\* C2: a producer whose scan throws gets a run record with exitCode 1 and
\* the error's message; the scan still returns, every other producer has
\* been run, and every finding of a producer that succeeded is represented
\* in the returned findings.
C2_ScanErrorIsolated ==
  Returned =>
    \A a \in Adapters : outcome[a].kind = "scanThrew" =>
      /\ \E r \in BagToSet(rawResult.toolsRun) :
           r.name = Name(a) /\ r.exitCode = 1 /\ r.error = "Scan failed"
      /\ \A b \in Adapters : outcome[b].kind # "pending"
      /\ \A b \in Adapters : outcome[b].kind = "resolved" =>
           \A i \in 1..Len(outcome[b].findings) :
             \E j \in 1..Len(rawResult.findings) :
               /\ DedupKey(rawResult.findings[j]) = DedupKey(outcome[b].findings[i])
               /\ rawResult.findings[j].confidence >= outcome[b].findings[i].confidence

\* a scan returned although one producer's scan threw, with the findings of
\* another producer in the result
C2_Witness ==
  /\ phase = "returned"
  /\ \E a, b \in Adapters :
       /\ outcome[a].kind = "scanThrew"
       /\ outcome[b].kind = "resolved"
       /\ outcome[b].findings # <<>>
       /\ rawResult.findings # <<>>

\* C3: a producer whose probe returned false gets exactly one run record,
\* with exitCode -1 and 'Tool not available'; its scan is never called and
\* none of its findings reaches the accumulator or a result.
C3_UnavailableSkipped ==
  \A a \in Adapters : outcome[a].kind = "false" =>
    /\ ExactlyOneRecord(a, toolsRun)
    /\ \A r \in RecordsOf(a, toolsRun) :
         r.exitCode = -1 /\ r.error = "Tool not available"
    /\ a \notin scanCalled
    /\ \A f \in Range(allFindings) \cup Range(rawResult.findings)
                \cup Range(result.findings) \cup Range(result.suppressed) :
         f.id \notin ProducerIds(a)

\* the scan returned with an unavailable producer that would have had
\* findings, next to a producer that delivered some
C3_Witness ==
  /\ phase = "finalized"
  /\ \E a, b \in Adapters :
       /\ outcome[a].kind = "false"
       /\ ProducerIds(a) # {}
       /\ outcome[b].kind = "resolved"
       /\ result.findings # <<>>

\* C4: a producer whose probe throws is recorded like one whose probe
\* returned false (exitCode -1, 'Tool not available'), and its scan is not
\* called.
C4_ProbeThrowIsUnavailable ==
  \A a \in Adapters : outcome[a].kind = "probeThrew" =>
    /\ \A r \in RecordsOf(a, toolsRun) :
         r.exitCode = -1 /\ r.error = "Tool not available"
    /\ a \notin scanCalled

\* C5: when scan returns, toolsRun holds exactly one record per configured
\* producer; with no producer available the findings are empty and every
\* record has the status unavailable.
C5_OneRecordPerProducer ==
  Returned =>
    /\ BagCardinality(rawResult.toolsRun) = adapters
    /\ \A a \in Adapters : ExactlyOneRecord(a, rawResult.toolsRun)
    /\ (\A a \in Adapters : outcome[a].kind \in {"false", "probeThrew"}) =>
         /\ rawResult.findings = <<>>
         /\ \A r \in BagToSet(rawResult.toolsRun) : r.exitCode = -1

\* the deduplication identity of a finding
Identity(f) == <<f.file, f.line, f.ruleId>>

\* the first-seen finding among those of maximum confidence with identity id
BestOf(findings, id) ==
  LET group == {i \in 1..Len(findings) : Identity(findings[i]) = id}
      best == {i \in group :
                 \A j \in group : findings[j].confidence <= findings[i].confidence}
  IN findings[CHOOSE i \in best : \A j \in best : i <= j]

\* C6: the deduplicated list is no longer than the raw list, holds at most
\* one finding per (file, line, ruleId), and the finding kept for an identity
\* is the first-seen one among those of maximum confidence of its group.
C6_DedupKeepsBest ==
  phase = "output" =>
    /\ Len(output) <= Len(input)
    /\ \A i, j \in 1..Len(output) :
         i # j => Identity(output[i]) # Identity(output[j])
    /\ \A i \in 1..Len(output) :
         output[i] = BestOf(input, Identity(output[i]))

\* three findings of one identity, the first of lower confidence and the
\* other two tied at the maximum: the second one is kept
C6_Witness ==
  /\ phase = "output"
  /\ Len(input) = 3
  /\ Identity(input[1]) = Identity(input[2])
  /\ Identity(input[2]) = Identity(input[3])
  /\ input[1].confidence < input[2].confidence
  /\ input[2].confidence = input[3].confidence
  /\ input[2] # input[3]
  /\ output = <<input[2]>>

\* the elements of s at the positions in K, in order
SelectAt(s, K) ==
  LET F[i \in 0..Len(s)] ==
        IF i = 0 THEN <<>>
        ELSE IF i \in K THEN Append(F[i - 1], s[i]) ELSE F[i - 1]
  IN F[Len(s)]

\* a finding without its suppression annotation
Strip(f) == [k \in (DOMAIN f) \ {"suppressedBy"} |-> f[k]]

\* C7: filterFindings partitions its input: the positions of the input split
\* into two disjoint sets, the kept list is the input at the one and the
\* suppressed list (annotation aside) the input at the other, both in input
\* order.
C7_ExactPartition ==
  phase = "output" =>
    \E K \in SUBSET (1..Len(input)) :
      /\ output.findings = SelectAt(input, K)
      /\ [i \in 1..Len(output.suppressed) |-> Strip(output.suppressed[i])]
           = SelectAt(input, (1..Len(input)) \ K)

\* a list was split into a kept and a suppressed finding
C7_Witness ==
  /\ phase = "output"
  /\ Len(input) = 2
  /\ Len(output.findings) = 1
  /\ Len(output.suppressed) = 1

\* C8: in the finalized result stats.total is the number of kept findings
\* and the sum of the bySeverity, of the byCategory and of the bySource
\* buckets.
C8_StatsMatchKept ==
  phase = "finalized" =>
    /\ result.stats.total = Len(result.findings)
    /\ SumOver(result.stats.bySeverity, Severities) = result.stats.total
    /\ SumOver(result.stats.byCategory, Categories) = result.stats.total
    /\ SumOver(result.stats.bySource, Sources) = result.stats.total

\* C9: in the finalized result stats.suppressedCount is the length of the
\* suppressed list.
C9_SuppressedCount ==
  phase = "finalized" =>
    result.stats.suppressedCount = Len(result.suppressed)

\* the stages a finding matches, numbered in the order of the claim:
\* 1 exclusion globs, 2 custom rules, 3 naming prefix, 4 test context,
\* 5 inline directive, 6..10 the domain heuristics
MatchedStages(f) ==
  LET context == getContext(unreadable, f)
      rules == fpConfig.patterns
  IN {k \in 1..10 :
        CASE k = 1 -> fpConfig.excludeTestFiles /\ MatchesDefaultExclusions(f.file)
          [] k = 2 -> \E i \in 1..Len(rules) :
                        /\ GlobMatch(f.file, rules[i].file)
                        /\ RegExpTest(rules[i].pattern, f.snippet)
          [] k = 3 -> hasTestPrefix(f.snippet)
          [] k = 4 -> Truthy(context) /\ isTestContext(context)
          [] k = 5 -> Truthy(context) /\ hasNoSecComment(context, f.line)
          [] k = 6 -> isCliPathTraversal(f)
          [] k = 7 -> isDocumentationFalsePositive(f)
          [] k = 8 -> isScannerRuleFalsePositive(f)
          [] k = 9 -> isPackageManagerHash(f)
          [] k = 10 -> isLegitimatePublicApiKey(f, context)}

StageReason(f, k) ==
  LET rules == fpConfig.patterns
      hits == {i \in 1..Len(rules) :
                 /\ GlobMatch(f.file, rules[i].file)
                 /\ RegExpTest(rules[i].pattern, f.snippet)}
  IN CASE k = 1 -> "File matches exclusion pattern (test/docs/dependencies)"
       [] k = 2 -> rules[CHOOSE i \in hits : \A j \in hits : i <= j].reason
       [] k = 3 -> "Variable has test/mock prefix (MOCK_, TEST_, etc.)"
       [] k = 4 -> "Found in test context (describe/it/test/expect)"
       [] k = 5 -> "Suppressed by nosec comment"
       [] k = 6 -> "CLI tool legitimate path operations"
       [] k = 7 -> "Documentation with example credentials"
       [] k = 8 -> "Security scanner rule definitions"
       [] k = 9 -> "Package manager integrity hash"
       [] k = 10 -> "Legitimate public/read-only API key"

FirstStage(f) == CHOOSE k \in MatchedStages(f) : \A m \in MatchedStages(f) : k <= m

\* C10: a finding that matches no stage is kept; a finding that matches one
\* or more stages is suppressed with the reason of the earliest stage in the
\* order exclusion globs, custom rules, naming prefix, test context, inline
\* directive, domain heuristics.
C10_FirstStageWins ==
  phase = "output" =>
    LET hit == {i \in 1..Len(input) : MatchedStages(input[i]) # {}}
        expected == SelectAt(input, hit)
    IN /\ output.findings = SelectAt(input, (1..Len(input)) \ hit)
       /\ Len(output.suppressed) = Len(expected)
       /\ \A i \in 1..Len(expected) :
            /\ Strip(output.suppressed[i]) = expected[i]
            /\ output.suppressed[i].suppressedBy
                 = StageReason(expected[i], FirstStage(expected[i]))

\* a finding in a test file whose snippet has a MOCK_ prefix is suppressed
\* with the reason of the exclusion globs, next to a finding that is kept
C10_Witness ==
  /\ phase = "output"
  /\ output.findings # <<>>
  /\ \E i \in 1..Len(output.suppressed) :
       /\ {1, 3} \subseteq MatchedStages(Strip(output.suppressed[i]))
       /\ output.suppressed[i].suppressedBy
            = "File matches exclusion pattern (test/docs/dependencies)"

\* the findings of the input whose source file cannot be read
ReadFailed(f) == f.file \notin ExistingFiles \/ f.file \in unreadable

\* the stages before the context is read that a finding matches
EarlyStages(f) == {k \in MatchedStages(f) : k <= 3}

\* the domain heuristics that do not look at the context, evaluated directly
LaterHeuristics(f) ==
  {k \in 6..9 :
     CASE k = 6 -> isCliPathTraversal(f)
       [] k = 7 -> isDocumentationFalsePositive(f)
       [] k = 8 -> isScannerRuleFalsePositive(f)
       [] k = 9 -> isPackageManagerHash(f)}

\* the annotations given to finding f in the suppressed list
ReasonsOf(f, suppressed) ==
  {suppressed[i].suppressedBy :
     i \in {j \in 1..Len(suppressed) : Strip(suppressed[j]) = f}}

\* C11: for a finding whose source file cannot be read, shouldSuppress still
\* gives a verdict: the test-context and the inline-directive stage never
\* give the reason; when no earlier stage matches, the first matching later
\* heuristic gives the reason, and the finding is kept when none matches.
C11_ReadFailureFallsThrough ==
  phase = "output" =>
    \A i \in 1..Len(input) :
      LET f == input[i] IN
      ReadFailed(f) =>
        /\ (f \in Range(output.findings)) # (ReasonsOf(f, output.suppressed) # {})
        /\ ReasonsOf(f, output.suppressed)
             \cap {"Found in test context (describe/it/test/expect)",
                   "Suppressed by nosec comment"} = {}
        /\ EarlyStages(f) = {} =>
             IF LaterHeuristics(f) = {}
             THEN f \in Range(output.findings)
             ELSE ReasonsOf(f, output.suppressed) =
                    {StageReason(f, CHOOSE k \in LaterHeuristics(f) :
                                      \A m \in LaterHeuristics(f) : k <= m)}

\* no file can be read: a finding under a nosec comment is kept and a
\* path operation of a CLI tool is suppressed by its heuristic
C11_Witness ==
  /\ phase = "output"
  /\ unreadable = ExistingFiles
  /\ input = <<FNosec, FCli>>
  /\ output.findings = <<FNosec>>
  /\ Len(output.suppressed) = 1
  /\ output.suppressed[1].suppressedBy = "CLI tool legitimate path operations"

\* the positions of the first finding of each ruleId, in order
FirstOfRule(findings) ==
  {i \in 1..Len(findings) :
     \A j \in 1..(i - 1) : findings[j].ruleId # findings[i].ruleId}

\* C12: the report of SarifReporter.generate holds one rule descriptor per
\* distinct ruleId of the kept findings, built from the first kept finding
\* with that ruleId, and one result per kept finding, in the order of the
\* kept findings; the suppressed findings are not in it.
C12_SarifRulesAndResults ==
  phase = "SarifReporter" =>
    LET kept == input.findings
        firsts == SelectAt(kept, FirstOfRule(kept))
        rules == output.driver.rules
    IN /\ Len(rules) = Cardinality({kept[i].ruleId : i \in 1..Len(kept)})
       /\ Len(rules) = Len(firsts)
       /\ \A i \in 1..Len(rules) :
            /\ rules[i].id = firsts[i].ruleId
            /\ rules[i].tags[1] = firsts[i].category
            /\ rules[i].securitySeverity = mapSecuritySeverity(firsts[i].severity)
            /\ rules[i].precision = mapPrecision(firsts[i].confidence)
       /\ Len(output.results) = Len(kept)
       /\ \A i \in 1..Len(kept) :
            /\ output.results[i].ruleId = kept[i].ruleId
            /\ output.results[i].uri = kept[i].file
            /\ output.results[i].startLine = kept[i].line
            /\ output.results[i].snippet = kept[i].snippet

\* two kept findings share a ruleId and differ in category and severity and
\* a third finding was suppressed: one descriptor, two results
C12_Witness ==
  /\ phase = "SarifReporter"
  /\ Len(input.findings) = 2
  /\ Len(input.suppressed) = 1
  /\ input.findings[1].ruleId = input.findings[2].ruleId
  /\ input.findings[1].category # input.findings[2].category
  /\ input.findings[1].severity # input.findings[2].severity
  /\ Len(output.driver.rules) = 1
  /\ Len(output.results) = 2

\* the level the specification gives a severity
SpecifiedLevel(severity) ==
  CASE severity \in {"CRITICAL", "HIGH"} -> "error"
    [] severity \in {"MEDIUM", "LOW"} -> "warning"
    [] severity = "INFO" -> "note"

\* C13: in the report of either converter (SarifReporter.generate and
\* SARIFProcessor.generateSARIF) the level of every result is error for
\* CRITICAL and HIGH, warning for MEDIUM and LOW, note for INFO.
C13_LevelMapping ==
  phase \in {"SarifReporter", "SARIFProcessor"} =>
    \A i \in 1..Len(output.results) :
      output.results[i].level = SpecifiedLevel(input.findings[i].severity)

\* the value of a key of an object, undefined when the object has no such key
Get(object, key) ==
  LET hits == {i \in 1..Len(object.v) : object.v[i].key = key}
  IN IF hits = {} THEN Undef ELSE object.v[CHOOSE i \in hits : TRUE].value

Keys(object) == {object.v[i].key : i \in 1..Len(object.v)}

\* structural equality of two JavaScript values: the same kind of value,
\* arrays item by item, objects field by field
RECURSIVE StructurallyEqual(_, _)
StructurallyEqual(a, b) ==
  /\ a.t = b.t
  /\ CASE a.t \in {"number", "string", "boolean"} -> a.v = b.v
       [] a.t = "array" ->
            /\ Len(a.v) = Len(b.v)
            /\ \A i \in 1..Len(a.v) : StructurallyEqual(a.v[i], b.v[i])
       [] a.t = "object" ->
            \A k \in Keys(a) \cup Keys(b) :
              StructurallyEqual(Get(a, k), Get(b, k))
       [] OTHER -> TRUE

C15_ScanReturns == (phase = "running") ~> (phase = "returned")

\* a scan returned although no producer delivered: one was unavailable,
\* the probe of one threw and the scan of one threw
C15_Witness ==
  /\ phase = "returned"
  /\ \A a \in Adapters : outcome[a].kind \in {"false", "probeThrew", "scanThrew"}
  /\ \E a, b, c \in Adapters :
       /\ outcome[a].kind = "false"
       /\ outcome[b].kind = "probeThrew"
       /\ outcome[c].kind = "scanThrew"
  /\ BagCardinality(rawResult.toolsRun) = adapters

\* the findings the producers whose scan resolved have returned
Delivered ==
  UNION {Range(outcome[a].findings) :
           a \in {b \in Adapters : outcome[b].kind = "resolved"}}

\* C16: the identities (file, line, ruleId) in the result of scan and the
\* confidence kept for each are determined by what the producers returned,
\* not by the order in which they completed: the identities are those of the
\* delivered findings, each with the highest confidence delivered for it.
C16_OrderIndependent ==
  Returned =>
    /\ {Identity(f) : f \in Range(rawResult.findings)}
         = {Identity(f) : f \in Delivered}
    /\ \A f \in Range(rawResult.findings) :
         /\ \E g \in Delivered :
              Identity(g) = Identity(f) /\ g.confidence = f.confidence
         /\ \A g \in Delivered :
              Identity(g) = Identity(f) => g.confidence <= f.confidence

\* the third producer completed before the first two; its finding, tied at
\* the highest confidence with one of the second producer, is the one kept
C16_Witness ==
  /\ phase = "returned"
  /\ adapters >= 3
  /\ \A a \in 1..3 : outcome[a].kind = "resolved"
  /\ allFindings[1] = FMock
  /\ F3 \in Range(rawResult.findings)
  /\ F2 \in Delivered /\ F1 \in Delivered

\* list is the batches of the producers in S, each whole, in some order
RECURSIVE IsConcatOf(_, _)
IsConcatOf(list, S) ==
  IF S = {} THEN list = <<>>
  ELSE \E a \in S :
         LET batch == outcome[a].findings IN
         /\ Len(batch) <= Len(list)
         /\ SubSeq(list, 1, Len(batch)) = batch
         /\ IsConcatOf(SubSeq(list, Len(batch) + 1, Len(list)), S \ {a})

\* C17: in every state the accumulator is the complete result lists of the
\* producers whose scan has resolved, one after the other: no batch is
\* partial and no two batches interleave.
C17_WholeBatches ==
  IsConcatOf(allFindings, {a \in Adapters : outcome[a].kind = "resolved"})

\* the third producer delivered its two findings while the scan of the
\* second, which returns two findings as well, is still in flight
C17_Witness ==
  /\ phase = "running"
  /\ adapters >= 3
  /\ pc[2] = "scanning"
  /\ outcome[3].kind = "resolved"
  /\ Len(outcome[3].findings) = 2
  /\ allFindings = outcome[3].findings

\* the number of findings of a list whose field has the value v
CountWhere(findings, field, v) ==
  Cardinality({i \in 1..Len(findings) : findings[i][field] = v})

\* C18: calculateStats returns a bucket for every severity, category and
\* source of the enumerations; each bucket is the number of findings with
\* that value, so 0 when there is none and all 0 for the empty list.
C18_BucketsCount ==
  phase = "output" =>
    /\ output.total = Len(input)
    /\ DOMAIN output.bySeverity = {"CRITICAL", "HIGH", "MEDIUM", "LOW", "INFO"}
    /\ DOMAIN output.byCategory =
         {"secrets", "injection", "auth", "crypto", "dependency", "other"}
    /\ {"truffleHog", "semgrep", "custom-npm", "custom-react"}
         \subseteq DOMAIN output.bySource
    /\ \A v \in DOMAIN output.bySeverity :
         output.bySeverity[v] = CountWhere(input, "severity", v)
    /\ \A v \in DOMAIN output.byCategory :
         output.byCategory[v] = CountWhere(input, "category", v)
    /\ \A v \in DOMAIN output.bySource :
         output.bySource[v] = CountWhere(input, "source", v)

\* three findings of severities CRITICAL, HIGH and MEDIUM give 1, 1, 1, 0, 0
C18_Witness ==
  /\ phase = "output"
  /\ Len(input) = 3
  /\ <<input[1].severity, input[2].severity, input[3].severity>>
       = <<"CRITICAL", "HIGH", "MEDIUM">>
  /\ output.bySeverity = [CRITICAL |-> 1, HIGH |-> 1, MEDIUM |-> 1,
                          LOW |-> 0, INFO |-> 0]
  /\ output.total = 3

\* C19: deduplication runs only when every producer task has settled and
\* written its run record, on a list that holds every finding of every
\* producer that succeeded; from then on the accumulator and toolsRun do not
\* change.
C19_DedupAfterAllSettled ==
  /\ [][(phase = "running" /\ phase' = "returned") =>
          /\ \A a \in Adapters : pc[a] = "done" /\ outcome[a].kind # "pending"
          /\ BagCardinality(toolsRun) = adapters
          /\ Delivered \subseteq Range(allFindings)
          /\ rawResult'.findings = deduplicateFindings(allFindings)
          /\ rawResult'.toolsRun = toolsRun]_vars
  /\ [][Returned => (allFindings' = allFindings /\ toolsRun' = toolsRun)]_vars

\* a scan returned after three producers delivered five findings in all,
\* the batch of the first producer being the last to arrive
C19_Witness ==
  /\ phase = "returned"
  /\ adapters >= 3
  /\ \A a \in 1..3 : outcome[a].kind = "resolved"
  /\ Len(allFindings) = 5
  /\ allFindings[5] = F1
  /\ rawResult.findings = deduplicateFindings(allFindings)
  /\ BagCardinality(rawResult.toolsRun) = adapters

\* the positions at which an identity occurs for the first time in a list
FirstSeen(findings) ==
  {i \in 1..Len(findings) :
     \A j \in 1..(i - 1) : Identity(findings[j]) # Identity(findings[i])}

\* C20: the identities of the deduplicated list are those of the input in
\* the order of their first occurrence, also when the finding stored for an
\* identity was replaced by a later one of higher confidence.
C20_FirstSeenOrder ==
  phase = "output" =>
    LET firsts == SelectAt(input, FirstSeen(input))
    IN /\ Len(output) = Len(firsts)
       /\ \A i \in 1..Len(output) : Identity(output[i]) = Identity(firsts[i])

\* the first finding was replaced by the third, of the same identity and a
\* higher confidence, and still comes before the second in the output
C20_Witness ==
  /\ phase = "output"
  /\ Len(input) = 3
  /\ Identity(input[1]) = Identity(input[3])
  /\ Identity(input[1]) # Identity(input[2])
  /\ input[1].confidence < input[3].confidence
  /\ output = <<input[3], input[2]>>

\* the custom rules, by position, whose glob matches the file of f and whose
\* regex matches the snippet of f
RulesMatching(f) ==
  {k \in 1..Len(fpConfig.patterns) :
     /\ GlobMatch(f.file, fpConfig.patterns[k].file)
     /\ RegExpTest(fpConfig.patterns[k].pattern, f.snippet)}

\* C21: a finding that the default exclusions do not match is suppressed
\* with the reason of the first configured rule whose glob matches its file
\* and whose regex matches its snippet; when no rule matches both, no rule
\* gives the reason.
C21_CustomRulesInOrder ==
  phase = "output" =>
    \A i \in 1..Len(input) :
      LET f == input[i]
          rules == fpConfig.patterns
          reasons == ReasonsOf(f, output.suppressed)
      IN ~(fpConfig.excludeTestFiles /\ MatchesDefaultExclusions(f.file)) =>
           IF RulesMatching(f) # {}
           THEN /\ f \notin Range(output.findings)
                /\ reasons = {rules[CHOOSE k \in RulesMatching(f) :
                                      \A m \in RulesMatching(f) : k <= m].reason}
           ELSE reasons \cap {rules[k].reason : k \in 1..Len(rules)} = {}

\* of three rules the first matches the file only, the second and the third
\* match file and snippet: the second gives the reason; a finding whose
\* snippet matches the second rule but whose file does not is left to the
\* third rule
C21_Witness ==
  /\ phase = "output"
  /\ fpConfig.patterns = <<RuleAnyTs, RuleExample, RuleKeyTs>>
  /\ input = <<FCustom, F1>>
  /\ GlobMatch(FCustom.file, RuleAnyTs.file)
  /\ RulesMatching(FCustom) = {2, 3}
  /\ RulesMatching(F1) = {3}
  /\ output.findings = <<>>
  /\ output.suppressed[1].suppressedBy = "Example file"
  /\ output.suppressed[2].suppressedBy = "Key in a ts file"

\* a line of a file holds a suppression marker
MarkerOn(content, k) ==
  k \in 1..Len(content) /\ HasAny(content[k], {"nosec", "noqa"})

\* C22: for a finding at line L of a readable file the inline-directive
\* stage suppresses exactly when line L or line L-1 of the file holds a
\* marker, whatever L and the length of the file.
C22_OwnOrPreviousLine ==
  phase = "output" =>
    (output <=> (\/ MarkerOn(input.content, input.line)
                 \/ MarkerOn(input.content, input.line - 1)))

\* a finding carries a suppression annotation
Annotated(f) == "suppressedBy" \in DOMAIN f

\* C23: every finding of the suppressed list carries in suppressedBy the
\* reason shouldSuppress returns for it; every kept finding is a finding of
\* the input as it was given, without annotation; and filterFindings leaves
\* its input list as it was, no finding of it annotated.
C23_AnnotationOnlyOnSuppressed ==
  /\ [](phase = "output" =>
          /\ \A i \in 1..Len(output.suppressed) :
               LET s == output.suppressed[i]
                   verdict == shouldSuppress(fpConfig, unreadable, Strip(s))
               IN /\ Annotated(s)
                  /\ Strip(s) \in Range(input)
                  /\ verdict.suppress
                  /\ s.suppressedBy # Undefined
                  /\ s.suppressedBy = verdict.reason
          /\ \A i \in 1..Len(output.findings) :
               /\ output.findings[i] \in Range(input)
               /\ ~Annotated(output.findings[i])
          /\ \A i \in 1..Len(input) : ~Annotated(input[i]))
  /\ [][input' = input]_vars

\* a finding with a MOCK_ prefix next to a finding that is kept: the copy in
\* the suppressed list carries the reason, the finding of the input does not
C23_Witness ==
  /\ phase = "output"
  /\ input = <<FMock, FReal>>
  /\ output.findings = <<FReal>>
  /\ Len(output.suppressed) = 1
  /\ output.suppressed[1].suppressedBy
       = "Variable has test/mock prefix (MOCK_, TEST_, etc.)"
  /\ ~Annotated(input[1])

\* C24: while filterFindings runs, the readFile calls of getContext in flight
\* are never more than the concurrency width, however many findings there
\* are.
C24_ReadsBounded ==
  Cardinality(reading) <= Width(parallelWorkers)

\* the read of the third finding is in flight after those of the first two
\* have settled
C24_Witness ==
  /\ phase = "filtering"
  /\ Len(input) = 3
  /\ cursor = 3
  /\ reading = {3}
  /\ Len(output.findings) + Len(output.suppressed) = 2
  /\ ~BeforeRead(fpConfig, input[1]).suppress
  /\ ~BeforeRead(fpConfig, input[2]).suppress

\* the snippet or the context of a finding matches a provider signature
MatchesSignature(finding, context) ==
  \E p \in 1..Len(publicKeyPatterns) :
    \/ PatternTest(publicKeyPatterns[p], context.lines)
    \/ PatternTest(publicKeyPatterns[p], <<finding.snippet>>)

\* C25: the public-key stage suppresses only a finding of category secrets
\* whose snippet or context matches a provider signature and whose context
\* shows a public, client-side or read-only marker.
C25_PublicKeyNeedsMarker ==
  (phase = "output" /\ output) =>
    LET context == ContextOf(input.content, input.finding.line)
    IN /\ input.finding.category = "secrets"
       /\ MatchesSignature(input.finding, context)
       /\ hasPublicMarkers(context)

\* the precision bucket of a confidence in percent
Bucket(confidence) ==
  CASE confidence >= 90 -> "very-high"
    [] confidence >= 75 /\ confidence < 90 -> "high"
    [] confidence >= 50 /\ confidence < 75 -> "medium"
    [] confidence < 50 -> "low"

\* the security-severity table
SecuritySeverityTable ==
  [CRITICAL |-> "9.0", HIGH |-> "7.0", MEDIUM |-> "5.0", LOW |-> "3.0",
   INFO |-> "1.0"]

\* C26: each rule descriptor of SarifReporter.generate has the precision
\* bucket of the confidence of the first kept finding of its ruleId (limits
\* 0.9, 0.75 and 0.5, each belonging to the bucket above it) and the
\* security-severity the table gives the severity of that finding.
C26_PrecisionBuckets ==
  phase = "output" =>
    LET kept == input.findings
        firsts == SelectAt(kept, FirstOfRule(kept))
        rules == output.driver.rules
    IN /\ Len(rules) = Len(firsts)
       /\ \A i \in 1..Len(rules) :
            /\ rules[i].id = firsts[i].ruleId
            /\ rules[i].precision = Bucket(firsts[i].confidence)
            /\ rules[i].securitySeverity
                 = SecuritySeverityTable[firsts[i].severity]

\* the first kept finding of a rule has confidence 0.75 and severity LOW, a
\* later one of the same rule 0.49 and CRITICAL: the rule is high and 3.0
C26_Witness ==
  /\ phase = "output"
  /\ Len(input.findings) = 2
  /\ input.findings[1].ruleId = input.findings[2].ruleId
  /\ input.findings[1].confidence = 75
  /\ input.findings[1].severity = "LOW"
  /\ input.findings[2].confidence = 49
  /\ input.findings[2].severity = "CRITICAL"
  /\ Len(output.driver.rules) = 1
  /\ output.driver.rules[1].precision = "high"
  /\ output.driver.rules[1].securitySeverity = "3.0"

\* a finding of the given list has the identity of f
Represented(f, findings) ==
  \E k \in 1..Len(findings) : Identity(findings[k]) = Identity(f)

\* C27: two findings of the input that differ in file, in line or in ruleId
\* both have a representative in the deduplicated list, also when the file
\* or the ruleId contains ":".
C27_DistinctTriplesKept ==
  phase = "output" =>
    \A i, j \in 1..Len(input) :
      Identity(input[i]) # Identity(input[j]) =>
        /\ Represented(input[i], output)
        /\ Represented(input[j], output)

\* C28: deduplicating a deduplicated list returns the same findings in the
\* same order.
C28_Idempotent ==
  [][(phase = "output" /\ phase' = "again") => output' = output]_vars

\* a list of three findings, the first of them replaced by a duplicate of
\* higher confidence, was deduplicated to two findings and those were
\* deduplicated again
C28_Witness ==
  /\ phase = "again"
  /\ Len(input) = 3
  /\ Len(output) = 2
  /\ output = deduplicateFindings(input)
  /\ output[1] # input[1]

\* the attempts executeWithRetry may make, and those of them that pass
Allowed == 1..(input.maxRetries + 1)

Passing == {k \in Allowed : input.script[k] = "pass"}

\* C29: executeWithRetry calls testFn at most maxRetries + 1 times; it ends
\* at the first call that passes and returns its result; a call that throws
\* or does not pass is followed by another one as long as calls are left;
\* when no call passes it rethrows the error of the last call if that call
\* threw and returns the result of the last call otherwise.
C29_RetryUntilPass ==
  /\ phase \in {"loop", "calling", "delaying", "returned", "thrown"} =>
       /\ retry.calls <= input.maxRetries + 1
       /\ \A k \in Passing : retry.calls <= k
  /\ phase \in {"returned", "thrown"} =>
       IF Passing # {}
       THEN LET first == CHOOSE k \in Passing : \A m \in Passing : k <= m
            IN /\ phase = "returned"
               /\ retry.calls = first
               /\ output = TestResult("pass", first)
       ELSE LET last == input.maxRetries + 1
            IN /\ retry.calls = last
               /\ IF input.script[last] = "throw"
                  THEN phase = "thrown" /\ output = TestError(last)
                  ELSE /\ phase = "returned"
                       /\ output = TestResult(input.script[last], last)

\* two retries: the first call throws, the second fails, the third passes
C29_Witness ==
  /\ phase = "returned"
  /\ input.maxRetries = 2
  /\ input.script = <<"throw", "fail", "pass">>
  /\ retry.calls = 3
  /\ output = TestResult("pass", 3)

\* the results of a list of runs, and of the runs of the files that can be
\* read and parsed, in order
RECURSIVE ResultsOfRuns(_)
ResultsOfRuns(runs) ==
  IF runs = <<>> THEN <<>>
  ELSE runs[1].results \o ResultsOfRuns(Tail(runs))

RECURSIVE ResultsOfFiles(_)
ResultsOfFiles(files) ==
  IF files = <<>> THEN <<>>
  ELSE (IF files[1].kind = "report" THEN ResultsOfRuns(files[1].runs) ELSE <<>>)
         \o ResultsOfFiles(Tail(files))

Triple(r) == <<r.ruleId, r.uri, r.startLine>>

\* every location of the results of the files has a uri and a region
Regions(files) ==
  \A i \in 1..Len(ResultsOfFiles(files)) :
    ResultsOfFiles(files)[i].location # "noRegion"

\* C30: the merged report holds, over all files and runs in order, exactly
\* the first result of each (ruleId, uri, startLine) among the results that
\* have a location; none of its runs is empty; a file that cannot be read
\* or parsed takes nothing from the files around it.
C30_MergeKeepsFirst ==
  (phase = "output" /\ Regions(input)) =>
    LET all == ResultsOfFiles(input)
        firsts == {i \in 1..Len(all) :
                     /\ all[i].location # "none"
                     /\ \A j \in 1..(i - 1) :
                          all[j].location = "none" \/ Triple(all[j]) # Triple(all[i])}
    IN /\ ResultsOfRuns(output) = SelectAt(all, firsts)
       /\ \A r \in 1..Len(output) : output[r].results # <<>>

====
